---- MODULE Spec2Model ----
(***************************************************************************)
(* Verification model of smartlogic-notifier.                              *)
(*                                                                         *)
(*   Spec        the webhook coalescer (notifier/handlers.go) driving the  *)
(*               notifier service (notifier/service.go).                   *)
(*   ForceSpec   Spec with POST /force-notify requests handled as well.    *)
(*   LiveSpec    Spec plus the fairness of the ticker, of the producer     *)
(*               goroutines and of the calls a Notify cycle makes.         *)
(*   ServiceSpec the notifier service by itself, called with any arguments *)
(*               and given any answer by the upstream and the event bus.   *)
(*   ClientSpec  the construction of the upstream client and its token     *)
(*               state machine (smartlogic/client.go), shared by two       *)
(*               long-running tasks.                                       *)
(*   ApiSpec     the HTTP handlers (notifier/handlers.go) over any         *)
(*               implementation of the Servicer interface.                 *)
(*   HealthSpec  the health service (notifier/healthcheck.go): its         *)
(*               construction, its background loop and the probes.         *)
(*   StopSpec    Spec with the coalescer's ticker stopped at any moment.   *)
(*   PureSpec    one call of a pure function on any argument: the URI      *)
(*               extraction and the changes list (smartlogic/client.go),   *)
(*               the envelope builder (kafka/ftmsg.go).                    *)
(*                                                                         *)
(* Times are integers in milliseconds.  The upstream store, the credential *)
(* endpoint and the producer of the event bus are the environment: every   *)
(* call to them draws its outcome from the set of outcomes it can have.    *)
(***************************************************************************)
EXTENDS Integers, Sequences, FiniteSets, TLC

\* ---- bounds of the model ------------------------------------------------
MaxWebhooks == 3      \* GET /notify requests handled in one run of Spec
MaxLiveWebhooks == 2  \* the same, in one run of LiveSpec
MaxForceWebhooks == 2 \* the same, in one run of ForceSpec
MaxT        == 2      \* lastChangeDate values are 0s .. MaxT s
MaxIds      == 2      \* concept ids a changed-concept list can carry
MaxForce    == 1      \* POST /force-notify requests handled in one run of ForceSpec
Max401      == 6      \* 401 answers the upstream gives in one run of ClientSpec
MaxUris     == 2      \* URIs in one answer to the changes query in ServiceSpec
MaxChangesets == 2    \* changesets in one answer to the changes query in PureSpec
MaxBatchLen == 2      \* ids in one ForceNotify call of ServiceSpec
MaxBatches  == 2      \* calls of the service in one run of ServiceSpec
MaxCalls    == 2      \* upstream requests each task issues in ClientSpec
MaxRequests == 2      \* requests to each kind of endpoint in ApiSpec
MaxFetches  == 3      \* iterations of the health loop in HealthSpec
MaxProbes   == 2      \* probes of /__gtg and /__health in HealthSpec

\* ---- program constants --------------------------------------------------
RequestChCapTwo == 1 + 1
RequestChCap == 1
Wobble == 10
LastChangeLimit == 604800000
maxTimeValue == 2147483647
maxAccessFailureCount == 5

VARIABLES
    left,        \* requests the run will still receive: [notify, force, calls]
    wh,          \* per GET /notify request: what HandleNotify and its goroutine did
    requestCh,   \* h.requestCh: the buffered channel (sequence of request indexes)
    sendq,       \* goroutines parked on a full requestCh, in arrival order
    loopPc,      \* position of processNotifyRequests
    n,           \* the loop's local n: the request selected so far
    loopErr,     \* the loop's local err: result of its last Notify call
    drained,     \* requests received from requestCh in the current cycle
    atTick,      \* requests in requestCh or parked on it when the tick found it non-empty
    calls,       \* Notify calls made since the last tick that found requests
    cyc,         \* per caller: the Notify / ForceNotify invocation it is running
    inFlight,    \* Notify and ForceNotify invocations entered and not yet returned
    force,       \* per POST /force-notify request: handler state and response
    accessFailureCount,  \* Client.accessFailureCount
    accessToken,         \* Client.accessToken
    task,                \* per task using the client: its makeRequest call
    ticker,              \* the coalescer's ticker: running, or stopped with
                         \* or without a tick still waiting in its channel
    client,              \* what NewSmartlogicClient returned
    attempt,             \* per task, for its makeRequest call: the counter it
                         \* found, and whether no other task wrote it since
    health,              \* the HealthService: construction, cache, who fetched last
    conceptResp,         \* the last response of GET /concept/{uuid}
    resp,                \* the last response of GET /notify or GET /concepts
    upstream,            \* what the upstream store answers to a concept fetch now
    probe                \* the last response of /__gtg or /__health

coalescerVars == <<left, wh, requestCh, sendq, loopPc, n, loopErr, drained, atTick,
                   calls, cyc, inFlight, force>>
clientVars    == <<accessFailureCount, accessToken, task, client, attempt>>
serviceVars   == <<health, conceptResp, resp, upstream, probe>>
vars          == <<left, wh, requestCh, sendq, loopPc, n, loopErr, drained, atTick,
                   calls, cyc, inFlight, force,
                   accessFailureCount, accessToken, task, client, attempt, health,
                   conceptResp, ticker,
                   resp, upstream, probe>>

\* ---- inputs ---------------------------------------------------------------
Slots      == DOMAIN wh
Dates      == {k * 1000 : k \in 0..MaxT}
\* two readings of the clock: lastChangeDate = 1s is exactly 168h old (after
\* the 10ms adjustment) at the first and 1ms older at the second
Nows       == {LastChangeLimit + 990, LastChangeLimit + 991}
LastChangeDates ==
    {[kind |-> "absent", ms |-> 0], [kind |-> "bad", ms |-> 0]}
        \cup {[kind |-> "date", ms |-> d] : d \in Dates}
Queries    == [mod : BOOLEAN, aff : BOOLEAN, lcd : LastChangeDates]

thingURIPrefix           == "http://www.ft.com/thing/"
managedLocationURIPrefix == "http://www.ft.com/ontology/managedlocation/"

\* the concept ids of the model
UuidOf     == <<"fd55c1f0-6c5e-4869-aed4-6816836ffdb9",
                "2d3e16e0-61cb-4322-8aff-3b01c59f4daa",
                "6a2a0170-6afa-4bcc-b427-430268d2ac50">>
UUIDs      == {UuidOf[k] : k \in 1..MaxIds}
IdLists    == {[k \in 1..m |-> UuidOf[k]] : m \in 0..MaxIds}
\* a concept scheme, and a URI under a prefix that is not recognized
SchemeURI  == thingURIPrefix \o "ConceptScheme/" \o UuidOf[1]
OtherURI   == "http://www.ft.com/ontology/" \o UuidOf[2]
\* the sem:about URIs the upstream can name: a concept under one of the two
\* recognized prefixes, or a URI that is not taken (a concept scheme, another
\* prefix)
URIs       == {p \o u : p \in {thingURIPrefix, managedLocationURIPrefix}, u \in UUIDs}
                  \cup {SchemeURI, OtherURI}
\* answers to the changes query while the coalescer runs: an error, or the
\* concepts 1..m under the first prefix
ListOutcomes == {[err |-> TRUE, uris |-> <<>>]}
                    \cup {[err |-> FALSE,
                           uris |-> [k \in 1..m |-> thingURIPrefix \o UuidOf[k]]] :
                              m \in 0..MaxIds}
\* any answer to the changes query: an error or up to MaxUris URIs
UriLists   == UNION {[1..m -> URIs] : m \in 0..MaxUris}
ListAnswers == {[err |-> TRUE, uris |-> <<>>]}
                    \cup {[err |-> FALSE, uris |-> l] : l \in UriLists}
\* id lists a caller can pass to ForceNotify: repetitions included
UuidLists(k) == UNION {[1..m -> UUIDs] : m \in 0..k}
BatchLists == UuidLists(MaxBatchLen)
InboundTids == {0, 1}
CallSinces  == {0, 1000}
\* bodies of POST /force-notify: not JSON, no "uuids" member, "uuids": null,
\* or a list of ids (the empty list included)
Payloads   == {[kind |-> "badjson", uuids |-> <<>>, tid |-> 0],
               [kind |-> "nouuids", uuids |-> <<>>, tid |-> 0],
               [kind |-> "nulluuids", uuids |-> <<>>, tid |-> 0]}
                    \cup {[kind |-> "list", uuids |-> l, tid |-> 0] : l \in IdLists}
\* what a concept fetch can come to: makeRequest failed, or an answer with a
\* status other than 401 whose body could or could not be read
Bodies     == {"concept", "concept'"}
\* the body the upstream answers, with status 200, for a concept it does not have
NotExistBody == "concept does not exist"
ConceptAnswers ==
    {[res |-> r, body |-> ""] :
        r \in {"transport", "failed to get a valid access token", "bodyReadError"}}
        \cup [res : {"200", "500"}, body : Bodies]
        \cup {[res |-> "200", body |-> NotExistBody]}
\* the sentinel error the handler of GET /concept/{uuid} tests for
ErrorConceptDoesNotExist == "ErrorConceptDoesNotExist"
\* error values as chains of wrapped errors, outermost first; <<>> is nil
ErrorChains == {<<"can't find concept">>, <<"wrapped", "can't find concept">>,
                <<ErrorConceptDoesNotExist>>, <<"wrapped", ErrorConceptDoesNotExist>>}
\* what an implementation of Servicer.GetConcept can return to a handler
ConceptResults ==
    {[err |-> FALSE, body |-> b, error |-> <<>>] : b \in Bodies}
        \cup {[err |-> TRUE, body |-> "", error |-> e] : e \in ErrorChains}
\* the same while the coalescer runs: no answer, or 200 with one body
ConceptOutcomes == {[res |-> "transport", body |-> ""], [res |-> "200", body |-> "concept"]}

Loop       == 0
ForceTasks == 1..MaxForce
Direct     == MaxForce + 1
Owners     == {Loop} \cup ForceTasks \cup {Direct}

\* ---- HandleNotify -------------------------------------------------------
validateLastChangeDateStrict(change, now) ==
    IF change.kind # "date"
    THEN [ok |-> FALSE, t |-> 0, msg |-> "Date is not in the format"]
    ELSE LET lastChange == change.ms - Wobble
         IN  IF now - lastChange >= LastChangeLimit
             THEN [ok |-> FALSE, t |-> 0,
                   msg |-> "Last change date should be time point in the last 168 hours"]
             ELSE [ok |-> TRUE, t |-> lastChange, msg |-> ""]

\* time.Parse, the 10ms adjustment and the test against LastChangeLimit, for
\* a clock that reads now
validateLastChangeDate(change, now) ==
    IF change.kind # "date"
    THEN [ok |-> FALSE, t |-> 0, msg |-> "Date is not in the format"]
    ELSE LET lastChange == change.ms - Wobble
         IN  IF now - lastChange > LastChangeLimit
             THEN [ok |-> FALSE, t |-> 0,
                   msg |-> "Last change date should be time point in the last 168 hours"]
             ELSE [ok |-> TRUE, t |-> lastChange, msg |-> ""]

notSetLastFirst(q) ==
    (IF q.lcd.kind = "absent" THEN <<"lastChangeDate">> ELSE <<>>)
        \o (IF q.mod THEN <<>> ELSE <<"modifiedGraphId">>)
        \o (IF q.aff THEN <<>> ELSE <<"affectedGraphId">>)

\* the names appended to notSet, in the order the handler tests them
notSet(q) ==
    (IF q.mod THEN <<>> ELSE <<"modifiedGraphId">>)
        \o (IF q.aff THEN <<>> ELSE <<"affectedGraphId">>)
        \o (IF q.lcd.kind = "absent" THEN <<"lastChangeDate">> ELSE <<>>)

RECURSIVE Join(_, _)
\* strings.Join(elems, sep)
Join(elems, sep) ==
    IF Len(elems) = 0 THEN ""
    ELSE IF Len(elems) = 1 THEN elems[1]
    ELSE elems[1] \o sep \o Join(Tail(elems), sep)

\* the response of GET /notify to query q read at time now
notifyResponse(q, now) ==
    LET v == validateLastChangeDate(q.lcd, now)
    IN  IF Len(notSet(q)) > 0
        THEN [handler |-> "notify", code |-> 400,
              msg |-> "Query parameters were not set: " \o Join(notSet(q), ", "),
              since |-> 0, query |-> [q EXCEPT !.lcd.ms = 0], now |-> 0, uuids |-> <<>>]
        ELSE IF ~v.ok
        THEN [handler |-> "notify", code |-> 400, msg |-> v.msg,
              since |-> 0, query |-> q, now |-> now, uuids |-> <<>>]
        ELSE [handler |-> "notify", code |-> 200, msg |-> "Concepts successfully ingested",
              since |-> v.t, query |-> q, now |-> now, uuids |-> <<>>]

InNotify == loopPc = "notify"

\* what a request finds on arrival: 1 the dispatch loop inside a Notify call,
\* 2 that and the buffer full, 0 otherwise
Busy == IF ~InNotify THEN 0 ELSE IF Len(requestCh) = RequestChCap THEN 2 ELSE 1

\* the handler sends on requestCh itself and answers after the send
HandleNotifySync(q, now) ==
    /\ left.notify > 0
    /\ left' = [left EXCEPT !.notify = @ - 1]
    /\ LET v == validateLastChangeDate(q.lcd, now)
       IN  IF Len(notSet(q)) > 0 \/ ~v.ok
           THEN /\ wh' = Append(wh, [st |-> "rejected", since |-> 0, code |-> 400, busy |-> 0])
                /\ UNCHANGED requestCh
           ELSE /\ Len(requestCh) < RequestChCap
                /\ requestCh' = Append(requestCh, Len(wh) + 1)
                /\ wh' = Append(wh, [st |-> "buffered", since |-> v.t, code |-> 200,
                                    busy |-> 0])
    /\ resp' = notifyResponse(q, now)
    /\ UNCHANGED <<sendq, loopPc, n, loopErr, drained, atTick, calls, cyc,
                   inFlight, force>>
    /\ UNCHANGED clientVars
    /\ UNCHANGED ticker
    /\ UNCHANGED <<health, conceptResp, upstream, probe>>

\* GET /notify: validate, start the goroutine that will send on requestCh,
\* answer at once
HandleNotify(q, now) ==
    /\ left.notify > 0
    /\ left' = [left EXCEPT !.notify = @ - 1]
    /\ LET v == validateLastChangeDate(q.lcd, now)
       IN  IF Len(notSet(q)) > 0 \/ ~v.ok
           THEN wh' = Append(wh, [st |-> "rejected", since |-> 0, code |-> 400, busy |-> 0])
           ELSE wh' = Append(wh, [st |-> "spawned", since |-> v.t, code |-> 200,
                                   busy |-> Busy])
    /\ resp' = notifyResponse(q, now)
    /\ UNCHANGED <<requestCh, sendq, loopPc, n, loopErr, drained, atTick, calls,
                   cyc, inFlight, force>>
    /\ UNCHANGED clientVars
    /\ UNCHANGED ticker
    /\ UNCHANGED <<health, conceptResp, upstream, probe>>

\* the goroutine's send: into the buffer if it has room, otherwise the
\* goroutine parks on the channel
Enqueue(i) ==
    /\ i \in Slots
    /\ wh[i].st = "spawned"
    /\ IF Len(requestCh) < RequestChCap
       THEN /\ requestCh' = Append(requestCh, i)
            /\ wh' = [wh EXCEPT ![i].st = "buffered"]
            /\ UNCHANGED sendq
       ELSE /\ sendq' = Append(sendq, i)
            /\ wh' = [wh EXCEPT ![i].st = "blocked"]
            /\ UNCHANGED requestCh
    /\ UNCHANGED <<left, loopPc, n, loopErr, drained, atTick, calls, cyc, inFlight,
                   force>>
    /\ UNCHANGED clientVars
    /\ UNCHANGED ticker
    /\ UNCHANGED serviceVars

\* ---- smartlogic.Client: what GetConcept and GetChangedConceptList compute ----
\* GetConcept from what makeRequest and the read of the body gave it: an error
\* when makeRequest failed or the body could not be read, otherwise the body,
\* whatever the status of the answer
GetConcept(out) ==
    IF out.res \in {"transport", "failed to get a valid access token", "bodyReadError"}
    THEN [err |-> TRUE, body |-> "", error |-> <<out.res>>]
    ELSE [err |-> FALSE, body |-> out.body, error |-> <<>>]

\* Service.GetConcept: return s.smartlogic.GetConcept(uuid)
ServiceGetConcept(r) == r

\* strings.Contains, strings.HasPrefix and strings.TrimPrefix
Contains(str, substr) ==
    \E i \in 1..(Len(str) - Len(substr) + 1) :
        SubSeq(str, i, i + Len(substr) - 1) = substr
HasPrefix(str, prefix) ==
    Len(str) >= Len(prefix) /\ SubSeq(str, 1, Len(prefix)) = prefix
TrimPrefix(str, prefix) ==
    IF HasPrefix(str, prefix) THEN SubSeq(str, Len(prefix) + 1, Len(str)) ELSE str

getUUIDfromValidURINoSchemeTest(uri) ==
    IF HasPrefix(uri, thingURIPrefix)
    THEN [ok |-> TRUE, uuid |-> TrimPrefix(uri, thingURIPrefix)]
    ELSE IF HasPrefix(uri, managedLocationURIPrefix)
    THEN [ok |-> TRUE, uuid |-> TrimPrefix(uri, managedLocationURIPrefix)]
    ELSE [ok |-> FALSE, uuid |-> ""]

getUUIDfromValidURI(uri) ==
    IF ~Contains(uri, "ConceptScheme")
    THEN IF HasPrefix(uri, thingURIPrefix)
         THEN [ok |-> TRUE, uuid |-> TrimPrefix(uri, thingURIPrefix)]
         ELSE IF HasPrefix(uri, managedLocationURIPrefix)
         THEN [ok |-> TRUE, uuid |-> TrimPrefix(uri, managedLocationURIPrefix)]
         ELSE [ok |-> FALSE, uuid |-> ""]
    ELSE [ok |-> FALSE, uuid |-> ""]

Range(s) == {s[k] : k \in DOMAIN s}

\* every URI of the answer is listed once
GetChangedConceptListNoDedup(uris) ==
    {[k \in 1..Len(l) |-> getUUIDfromValidURI(l[k]).uuid] :
        l \in {SelectSeq(uris, LAMBDA u : getUUIDfromValidURI(u).ok)}}

\* the lists GetChangedConceptList can return for an answer naming uris: the
\* URIs are collected in a map, and the range over the map yields the UUIDs of
\* the valid ones, in any order
GetChangedConceptList(uris) ==
    LET valid == {u \in Range(uris) : getUUIDfromValidURI(u).ok}
    IN  {[k \in 1..Cardinality(valid) |-> getUUIDfromValidURI(f[k]).uuid] :
            f \in {g \in [1..Cardinality(valid) -> valid] : Range(g) = valid}}

\* ---- Service.Notify / Service.ForceNotify -------------------------------
NoResult  == [kind |-> "none", count |-> 0, since |-> 0, tid |-> 0]
NoConcept == [body |-> "", status |-> "none"]

\* an invocation of Notify or ForceNotify: its arguments, its locals (ids, the
\* step i of the range, concept, errorMap), and what it has done so far: the
\* since of each list call, the concept URIs the last list answer named, the
\* fetches made, the ids generated, the positions that failed, the messages
\* sent, and the value it returns
IdleCycle == [phase |-> "idle", kind |-> "none", since |-> 0, tid |-> 0, ids |-> <<>>,
              i |-> 0, concept |-> NoConcept, errorMap |-> {}, sent |-> <<>>,
              listCalls |-> 0, retried |-> FALSE, listArgs |-> <<>>,
              named |-> {}, fetched |-> <<>>, failed |-> {}, minted |-> 0,
              result |-> NoResult]

Finish(c, res) == [c EXCEPT !.phase = "ret", !.result = res]

forceResultOk(errorMap) == [NoResult EXCEPT !.kind = "ok"]

\* what ForceNotify returns once the range over the ids is over
forceResult(errorMap) ==
    IF Cardinality(errorMap) > 0
    THEN [NoResult EXCEPT !.kind = "batch", !.count = Cardinality(errorMap)]
    ELSE [NoResult EXCEPT !.kind = "ok"]

positionReversed(ids, k) == Len(ids) + 1 - k

\* for _, conceptUUID := range UUIDs: the list position visited at step k
position(ids, k) == k

\* the range goes on with the next id, or is over
nextId(c) ==
    IF c.i >= Len(c.ids)
    THEN Finish(c, forceResult(c.errorMap))
    ELSE [c EXCEPT !.phase = "fetch", !.i = @ + 1]

afterFetchErrorAbort(c) == Finish(c, forceResult(c.errorMap))

\* errorMap[conceptUUID] = err; continue
afterFetchError(c) == nextId(c)

afterEmptyListNoRetry(c) ==
    Finish(c, [NoResult EXCEPT !.kind = "empty", !.since = c.since, !.tid = c.tid])

\* the first list is empty: sleep, then ask again
afterEmptyList(c) == [c EXCEPT !.phase = "list2", !.retried = TRUE]

\* transactionidutils.NewTransactionID(): the k-th id the invocation generates
NewTransactionID(k) == [src |-> "NewTransactionID", serial |-> k]

messageTidInbound(c, new) == [src |-> "inbound", serial |-> c.tid]

\* the X-Request-Id header of the message: newTransactionID
messageTid(c, new) == new

listArgLater(c) == c.since + 5000

\* the lastChange both list calls are made with
listArg(c) == c.since

enterNotify(since, tid) ==
    [IdleCycle EXCEPT !.phase = "list1", !.kind = "Notify", !.since = since, !.tid = tid]

enterForceNotify(c, ids, tid) ==
    LET c1 == [c EXCEPT !.ids = ids, !.tid = tid, !.i = 1,
                        !.kind = IF c.kind = "none" THEN "ForceNotify" ELSE c.kind]
    IN  IF Len(ids) = 0 THEN Finish(c1, forceResult(c1.errorMap))
        ELSE [c1 EXCEPT !.phase = "fetch"]

\* ---- processNotifyRequests ------------------------------------------------
Min(S) == CHOOSE x \in S : \A y \in S : x <= y

Handed == {i \in Slots : wh[i].st \in {"buffered", "blocked"}}

NoRequest == [notifySince |-> maxTimeValue, transactionID |-> 0]

\* t.ticker.Stop(): no more ticks are sent; the channel is not closed, and a
\* tick already waiting in it (pending) stays there
Stop(pending) ==
    /\ ticker = "running"
    /\ ticker' = IF pending THEN "pending" ELSE "stopped"
    /\ UNCHANGED coalescerVars
    /\ UNCHANGED clientVars
    /\ UNCHANGED serviceVars

\* h.ticker.Tick() returns: <-t.ticker.C has received a tick
Tick ==
    /\ loopPc = "tick"
    /\ ticker # "stopped"
    /\ ticker' = IF ticker = "pending" THEN "stopped" ELSE ticker
    /\ loopPc' = "len0"
    /\ UNCHANGED <<left, wh, requestCh, sendq, n, loopErr, drained, atTick, calls,
                   cyc, inFlight, force>>
    /\ UNCHANGED clientVars
    /\ UNCHANGED serviceVars

CheckLenNoSkip ==
    /\ loopPc = "len0"
    /\ loopPc' = "recv"
    /\ n' = NoRequest
    /\ drained' = {}
    /\ atTick' = Handed
    /\ calls' = 0
    /\ UNCHANGED <<left, wh, requestCh, sendq, loopErr, cyc, inFlight, force>>
    /\ UNCHANGED clientVars
    /\ UNCHANGED ticker
    /\ UNCHANGED serviceVars

\* if len(h.requestCh) == 0 { continue }; n := notificationRequest{maxTimeValue}
CheckLen ==
    /\ loopPc = "len0"
    /\ IF Len(requestCh) = 0
       THEN /\ loopPc' = "tick"
            /\ UNCHANGED <<n, drained, atTick, calls>>
       ELSE /\ loopPc' = "recv"
            /\ n' = NoRequest
            /\ drained' = {}
            /\ atTick' = Handed
            /\ calls' = 0
    /\ UNCHANGED <<left, wh, requestCh, sendq, loopErr, cyc, inFlight, force>>
    /\ UNCHANGED clientVars
    /\ UNCHANGED ticker
    /\ UNCHANGED serviceVars

selectLastOnTie(cur, req) ==
    IF cur.notifySince >= req.notifySince THEN req ELSE cur

selectLatest(cur, req) ==
    IF cur.notifySince < req.notifySince THEN req ELSE cur

\* if n.notifySince.After(req.notifySince) { n = req }
selectRequest(cur, req) ==
    IF cur.notifySince > req.notifySince THEN req ELSE cur

\* req := <-h.requestCh.  A receive from a full channel on which senders are
\* parked takes the head of the buffer and moves the first parked sender's
\* value into the buffer in the same step.
Recv ==
    /\ loopPc = "recv"
    /\ Len(requestCh) > 0
    /\ LET i   == Head(requestCh)
           req == [notifySince |-> wh[i].since, transactionID |-> i]
       IN  /\ n' = selectRequest(n, req)
           /\ drained' = drained \cup {i}
           /\ IF sendq # <<>>
              THEN /\ requestCh' = Append(Tail(requestCh), Head(sendq))
                   /\ sendq' = Tail(sendq)
                   /\ wh' = [wh EXCEPT ![i].st = "drained",
                                       ![Head(sendq)].st = "buffered"]
              ELSE /\ requestCh' = Tail(requestCh)
                   /\ sendq' = sendq
                   /\ wh' = [wh EXCEPT ![i].st = "drained"]
    /\ loopPc' = "len1"
    /\ UNCHANGED <<left, loopErr, atTick, calls, cyc, inFlight, force>>
    /\ UNCHANGED clientVars
    /\ UNCHANGED ticker
    /\ UNCHANGED serviceVars

afterDispatchAsync == "tick"

\* h.notifier.Notify is called synchronously: the loop stays in the call
afterDispatch == "notify"

\* if len(h.requestCh) == 0 { break }; then h.notifier.Notify(n.notifySince, n.transactionID)
Dispatch ==
    /\ loopPc = "len1"
    /\ IF Len(requestCh) = 0
       THEN /\ loopPc' = afterDispatch
            /\ cyc' = [cyc EXCEPT ![Loop] = enterNotify(n.notifySince, n.transactionID)]
            /\ inFlight' = [inFlight EXCEPT !.notify = @ + 1]
            /\ calls' = calls + 1
       ELSE /\ loopPc' = "recv"
            /\ UNCHANGED <<cyc, inFlight, calls>>
    /\ UNCHANGED <<left, wh, requestCh, sendq, n, loopErr, drained, atTick, force>>
    /\ UNCHANGED clientVars
    /\ UNCHANGED ticker
    /\ UNCHANGED serviceVars

\* ---- Service.Notify / Service.ForceNotify: the steps ----------------------
\* a step inside owner o's invocation: only the invocation changes
Advance(o, c) ==
    /\ cyc' = [cyc EXCEPT ![o] = c]
    /\ UNCHANGED <<left, wh, requestCh, sendq, loopPc, n, loopErr, drained, atTick,
                   calls, inFlight, force>>
    /\ UNCHANGED clientVars
    /\ UNCHANGED ticker
    /\ UNCHANGED serviceVars

\* s.smartlogic.GetChangedConceptList(lastChange), first call and retry: the
\* upstream's answer is out, the list returned for it is l
GetChangedConceptListCall(o, out, l) ==
    /\ cyc[o].phase \in {"list1", "list2"}
    /\ l \in (IF out.err THEN {<<>>} ELSE GetChangedConceptList(out.uris))
    /\ LET c == [cyc[o] EXCEPT !.listCalls = @ + 1,
                               !.listArgs = Append(@, listArg(cyc[o])),
                               !.named = {u \in Range(out.uris) :
                                             getUUIDfromValidURI(u).ok}]
       IN  IF out.err
           THEN Advance(o, Finish(c, [NoResult EXCEPT !.kind =
                               IF cyc[o].phase = "list1" THEN "listErr" ELSE "retryErr"]))
           ELSE IF Len(l) = 0
           THEN IF cyc[o].phase = "list1"
                THEN Advance(o, afterEmptyList(c))
                ELSE Advance(o, Finish(c, [NoResult EXCEPT !.kind = "empty",
                                                           !.since = c.since,
                                                           !.tid = c.tid]))
           ELSE Advance(o, enterForceNotify(c, l, c.tid))

\* concept, err := s.smartlogic.GetConcept(conceptUUID)
GetConceptCall(o, out) ==
    /\ cyc[o].phase = "fetch"
    /\ LET c   == cyc[o]
           pos == position(c.ids, c.i)
           r   == GetConcept(out)
           c1  == [c EXCEPT !.fetched = Append(@, [pos |-> pos, res |-> out.res,
                                                   err |-> r.err, body |-> r.body])]
       IN  IF r.err
           THEN Advance(o, afterFetchError([c1 EXCEPT !.errorMap = @ \cup {c.ids[pos]},
                                                      !.failed = @ \cup {pos}]))
           ELSE Advance(o, [c1 EXCEPT !.phase = "publish",
                                      !.concept = [body |-> r.body, status |-> out.res]])

\* newTransactionID := NewTransactionID(); message := NewFTMessage(...);
\* err = s.kafka.SendMessage(message)
SendMessageCall(o, ok) ==
    /\ cyc[o].phase = "publish"
    /\ LET c   == cyc[o]
           pos == position(c.ids, c.i)
           msg == [pos |-> pos, id |-> c.ids[pos], body |-> c.concept.body,
                   tid |-> messageTid(c, NewTransactionID(c.minted + 1)),
                   status |-> c.concept.status]
       IN  Advance(o, nextId([c EXCEPT
                                 !.minted = @ + 1,
                                 !.concept = NoConcept,
                                 !.sent = IF ok THEN Append(@, msg) ELSE @,
                                 !.errorMap = IF ok THEN @ ELSE @ \cup {c.ids[pos]},
                                 !.failed = IF ok THEN @ ELSE @ \cup {pos}]))

afterNotifyStopOnError(res) == IF res = "ok" THEN "tick" ELSE "stopped"

\* err := h.notifier.Notify(...); if err != nil { log }; next iteration
afterNotify(res) == "tick"

forceStatusAlways200(res) == 200

\* the status HandleForceNotify answers with for the result of ForceNotify
forceStatus(res) == IF res = "ok" THEN 200 ELSE 500

\* the invocation of owner o returns res: to the dispatch loop, whose
\* iteration ends (its locals n and req die with it), to the /force-notify
\* handler, which answers, or to another caller of the service
Return(o, res) ==
    IF o = Loop
    THEN /\ loopPc' = afterNotify(res)
         /\ loopErr' = res
         /\ inFlight' = [inFlight EXCEPT !.notify = @ - 1]
         /\ n' = NoRequest
         /\ drained' = {}
         /\ atTick' = {}
         /\ wh' = [i \in Slots |->
                      IF i \in drained
                      THEN [wh[i] EXCEPT !.st = "done", !.since = 0]
                      ELSE wh[i]]
         /\ UNCHANGED force
    ELSE IF o \in ForceTasks
    THEN /\ force' = [force EXCEPT ![o].st = "done",
                                    ![o].code = forceStatus(res),
                                    ![o].msg = IF res = "ok"
                                               THEN "Concept notification completed"
                                               ELSE "There was an error completing the force notify"]
         /\ inFlight' = [inFlight EXCEPT !.force = @ - 1]
         /\ UNCHANGED <<loopPc, loopErr, n, drained, atTick, wh>>
    ELSE UNCHANGED <<loopPc, loopErr, n, drained, atTick, wh, force, inFlight>>

\* return nil / return err: the invocation of owner o returns its result
ReturnCall(o) ==
    /\ cyc[o].phase = "ret"
    /\ cyc' = [cyc EXCEPT ![o] = IdleCycle]
    /\ Return(o, cyc[o].result.kind)
    /\ UNCHANGED <<left, requestCh, sendq, calls>>
    /\ UNCHANGED clientVars
    /\ UNCHANGED ticker
    /\ UNCHANGED serviceVars

NoForce == [st |-> "idle", code |-> 0, msg |-> "", payload |-> "none", uuids |-> <<>>,
            calls |-> 0]

decodeErrorOnly(pl) ==
    IF pl.kind = "badjson" THEN "There was an error decoding the payload" ELSE "nil"

\* the 400 paths of HandleForceNotify: the body does not decode, or pl.UUIDs
\* is nil after decoding (no "uuids" member, or null)
payloadError(pl) ==
    IF pl.kind = "badjson" THEN "There was an error decoding the payload"
    ELSE IF pl.kind \in {"nouuids", "nulluuids"} THEN "No 'uuids' parameter provided"
    ELSE "nil"

\* POST /force-notify
HandleForceNotify(o, pl) ==
    /\ o \in ForceTasks
    /\ force[o].st = "idle"
    /\ left.force > 0
    /\ left' = [left EXCEPT !.force = @ - 1]
    /\ IF payloadError(pl) # "nil"
       THEN /\ force' = [force EXCEPT ![o] =
                            [NoForce EXCEPT !.st = "done", !.code = 400,
                                            !.msg = payloadError(pl),
                                            !.payload = pl.kind]]
            /\ UNCHANGED <<cyc, inFlight>>
       ELSE /\ force' = [force EXCEPT ![o] =
                            [NoForce EXCEPT !.st = "running", !.payload = pl.kind,
                                            !.uuids = pl.uuids, !.calls = 1]]
            /\ cyc' = [cyc EXCEPT ![o] = enterForceNotify(IdleCycle, pl.uuids, pl.tid)]
            /\ inFlight' = [inFlight EXCEPT !.force = @ + 1]
    /\ UNCHANGED <<wh, requestCh, sendq, loopPc, n, loopErr, drained, atTick, calls>>
    /\ UNCHANGED clientVars
    /\ UNCHANGED ticker
    /\ UNCHANGED serviceVars

\* a caller of the service other than the loop and the handlers calls Notify
NotifyCall(o, since, tid) ==
    /\ o = Direct
    /\ cyc[o].phase = "idle"
    /\ left.batches > 0
    /\ left' = [left EXCEPT !.batches = @ - 1]
    /\ cyc' = [cyc EXCEPT ![o] = enterNotify(since, tid)]
    /\ UNCHANGED <<wh, requestCh, sendq, loopPc, n, loopErr, drained, atTick, calls,
                   inFlight, force>>
    /\ UNCHANGED clientVars
    /\ UNCHANGED ticker
    /\ UNCHANGED serviceVars

\* the same for ForceNotify
ForceNotifyCall(o, ids, tid) ==
    /\ o = Direct
    /\ cyc[o].phase = "idle"
    /\ left.batches > 0
    /\ left' = [left EXCEPT !.batches = @ - 1]
    /\ cyc' = [cyc EXCEPT ![o] = enterForceNotify(IdleCycle, ids, tid)]
    /\ UNCHANGED <<wh, requestCh, sendq, loopPc, n, loopErr, drained, atTick, calls,
                   inFlight, force>>
    /\ UNCHANGED clientVars
    /\ UNCHANGED ticker
    /\ UNCHANGED serviceVars

\* errors.Is(err, target): target is err or one of the errors err wraps
errorsIs(error, target) == \E k \in DOMAIN error : error[k] = target

conceptErrStatusAlways500(error) == 500

\* errStatus of HandleGetConcept
conceptErrStatus(error) ==
    IF errorsIs(error, ErrorConceptDoesNotExist) THEN 404 ELSE 500

NoConceptResp == [upstream |-> "none", error |-> <<>>, got |-> "", code |-> 0,
                  contentType |-> "", body |-> ""]

\* GET /concept/{uuid}: r is what h.notifier.GetConcept returned, up the
\* upstream's answer it came from ("servicer" when the Servicer is not the
\* service over the upstream client)
HandleGetConcept(up, r) ==
    /\ left.batches > 0
    /\ left' = [left EXCEPT !.batches = @ - 1]
    /\ conceptResp' =
          IF r.err
          THEN [upstream |-> up, error |-> r.error, got |-> r.body,
                code |-> conceptErrStatus(r.error),
                contentType |-> "application/json",
                body |-> "There was an error retrieving the concept"]
          ELSE [upstream |-> up, error |-> r.error, got |-> r.body,
                code |-> 200, contentType |-> "application/ld+json",
                body |-> r.body]
    /\ UNCHANGED <<health, resp, upstream, probe>>
    /\ UNCHANGED <<wh, requestCh, sendq, loopPc, n, loopErr, drained, atTick, calls,
                   cyc, inFlight, force>>
    /\ UNCHANGED clientVars
    /\ UNCHANGED ticker

\* the response of GET /concepts for lastChangeDate lcd read at time now, when
\* the upstream answers the changes query with ans and l is the list made of it
conceptsResponse(lcd, now, ans, l) ==
    LET v == validateLastChangeDate(lcd, now)
        q == [mod |-> FALSE, aff |-> FALSE, lcd |-> lcd]
    IN  IF lcd.kind = "absent"
        THEN [handler |-> "concepts", code |-> 400,
              msg |-> "Query parameter lastChangeDate was not set.",
              since |-> 0, query |-> q, now |-> 0, uuids |-> <<>>]
        ELSE IF ~v.ok
        THEN [handler |-> "concepts", code |-> 400, msg |-> v.msg,
              since |-> 0, query |-> q, now |-> now, uuids |-> <<>>]
        ELSE IF ans.err
        THEN [handler |-> "concepts", code |-> 500,
              msg |-> "There was an error getting the changes",
              since |-> v.t, query |-> q, now |-> now, uuids |-> <<>>]
        ELSE [handler |-> "concepts", code |-> 200, msg |-> "",
              since |-> v.t, query |-> q, now |-> now, uuids |-> l]

\* GET /concepts
HandleGetConcepts(lcd, now, ans, l) ==
    /\ left.batches > 0
    /\ left' = [left EXCEPT !.batches = @ - 1]
    /\ l \in (IF ans.err THEN {<<>>} ELSE GetChangedConceptList(ans.uris))
    /\ resp' = conceptsResponse(lcd, now, ans, l)
    /\ UNCHANGED <<health, conceptResp, upstream, probe>>
    /\ UNCHANGED <<wh, requestCh, sendq, loopPc, n, loopErr, drained, atTick, calls,
                   cyc, inFlight, force>>
    /\ UNCHANGED clientVars
    /\ UNCHANGED ticker

\* ---- HealthService ------------------------------------------------------
\* HealthServiceConfig values: each string property empty or not, the cache
\* time negative, zero or positive (nanoseconds)
Configs == [AppSystemCode : {"", "x"}, AppName : {"", "x"}, Description : {"", "x"},
            SmartlogicModel : {"", "x"}, SmartlogicModelConcept : {"", "x"},
            SuccessCacheTime : {0 - 1, 0, 1}]
ValidConfig == [AppSystemCode |-> "x", AppName |-> "x", Description |-> "x",
                SmartlogicModel |-> "x", SmartlogicModelConcept |-> "x",
                SuccessCacheTime |-> 1]

ValidateNegativeOnly(c) ==
    IF c.AppSystemCode = "" THEN "property AppSystemCode is required"
    ELSE IF c.AppName = "" THEN "property AppName is required"
    ELSE IF c.Description = "" THEN "property Description is required"
    ELSE IF c.SmartlogicModel = "" THEN "property SmartlogicModel is required"
    ELSE IF c.SmartlogicModelConcept = ""
         THEN "property SmartlogicModelConcept is required"
    ELSE IF c.SuccessCacheTime < 0 THEN "property SuccessCacheTime is required"
    ELSE "nil"

\* HealthServiceConfig.Validate: the error of the first property that is
\* missing, "nil" when there is none
Validate(c) ==
    IF c.AppSystemCode = "" THEN "property AppSystemCode is required"
    ELSE IF c.AppName = "" THEN "property AppName is required"
    ELSE IF c.Description = "" THEN "property Description is required"
    ELSE IF c.SmartlogicModel = "" THEN "property SmartlogicModel is required"
    ELSE IF c.SmartlogicModelConcept = ""
         THEN "property SmartlogicModelConcept is required"
    ELSE IF c.SuccessCacheTime <= 0 THEN "property SuccessCacheTime is required"
    ELSE "nil"

\* the HealthService: what NewHealthService returned (st "invalid": nil and
\* an error; "built": a service; "started": Start was called on it), the
\* cached flag, the answer of the upstream to the last fetch of the health
\* check concept, whether GetConcept returned an error for it, and who made
\* that fetch
NoHealth == [st |-> "none", config |-> ValidConfig, err |-> "nil",
             checkSuccessCache |-> FALSE, upstream |-> "none", lastErr |-> FALSE,
             fetchedBy |-> "none"]
StartedHealth == [NoHealth EXCEPT !.st = "started"]

NoProbe == [path |-> "none", code |-> 0, body |-> "", smartlogic |-> FALSE,
            kafka |-> FALSE, kafkaChecks |-> 0]
NoResp  == [handler |-> "none", code |-> 0, msg |-> "", since |-> 0,
            query |-> [mod |-> FALSE, aff |-> FALSE, lcd |-> [kind |-> "absent", ms |-> 0]],
            now |-> 0, uuids |-> <<>>]

\* what the upstream can be answering to the fetch of the health check concept
UpstreamStates == {[res |-> "200", body |-> "concept"],
                   [res |-> "500", body |-> "concept"],
                   [res |-> "transport", body |-> ""]}

checkSuccessCacheSetAtConstruction == TRUE

\* service := &HealthService{config: config, notifier: notifier}: the flag
\* checkSuccessCache is not named and has the zero value
checkSuccessCacheAtConstruction == FALSE

NewHealthService(config) ==
    /\ health.st = "none"
    /\ LET err == Validate(config)
       IN  health' = IF err # "nil"
                     THEN [health EXCEPT !.st = "invalid", !.config = config,
                                         !.err = err]
                     ELSE [health EXCEPT !.st = "built", !.config = config,
                                         !.checkSuccessCache =
                                             checkSuccessCacheAtConstruction]
    /\ UNCHANGED <<conceptResp, resp, upstream, probe>>
    /\ UNCHANGED coalescerVars
    /\ UNCHANGED clientVars
    /\ UNCHANGED ticker

\* Start: the goroutine of the health loop is running
Start ==
    /\ health.st = "built"
    /\ health' = [health EXCEPT !.st = "started"]
    /\ UNCHANGED <<conceptResp, resp, upstream, probe>>
    /\ UNCHANGED coalescerVars
    /\ UNCHANGED clientVars
    /\ UNCHANGED ticker

\* the upstream store changes what it answers
UpstreamChanges(a) ==
    /\ a # upstream
    /\ upstream' = a
    /\ UNCHANGED <<health, conceptResp, resp, probe>>
    /\ UNCHANGED coalescerVars
    /\ UNCHANGED clientVars
    /\ UNCHANGED ticker

cacheAfterFetchSticky(cache, r) == cache \/ ~r.err

\* setCheckSuccessCache(false) on an error of GetConcept, (true) otherwise
cacheAfterFetch(cache, r) == ~r.err

\* one iteration of the health loop, updateSmartlogicSuccessCache: out is
\* the upstream's answer to the fetch of the health check concept
updateSmartlogicSuccessCache(out) ==
    /\ health.st = "started"
    /\ left.batches > 0
    /\ left' = [left EXCEPT !.batches = @ - 1]
    /\ health' = [health EXCEPT
                    !.checkSuccessCache =
                        cacheAfterFetch(@, ServiceGetConcept(GetConcept(out))),
                    !.upstream = out.res,
                    !.lastErr = ServiceGetConcept(GetConcept(out)).err,
                    !.fetchedBy = "loop"]
    /\ UNCHANGED <<conceptResp, resp, upstream, probe>>
    /\ UNCHANGED <<wh, requestCh, sendq, loopPc, n, loopErr, drained, atTick, calls,
                   cyc, inFlight, force>>
    /\ UNCHANGED clientVars
    /\ UNCHANGED ticker

smartlogicConnectivityCheckLive(h, up) ==
    LET r == ServiceGetConcept(GetConcept(up))
    IN  [ok |-> ~r.err,
         msg |-> IF r.err THEN "latest Smartlogic connectivity check is unsuccessful"
                 ELSE "",
         health |-> [h EXCEPT !.upstream = up.res, !.lastErr = r.err,
                              !.fetchedBy = "probe"]]

\* smartlogicConnectivityCheck: the cached result, whatever the upstream
\* answers now
smartlogicConnectivityCheck(h, up) ==
    [ok |-> h.checkSuccessCache,
     msg |-> IF h.checkSuccessCache THEN ""
             ELSE "latest Smartlogic connectivity check is unsuccessful",
     health |-> h]

\* checkKafkaConnectivity: the error of the live check of the producer
checkKafkaConnectivity(kafkaUp) ==
    [ok |-> kafkaUp,
     msg |-> IF kafkaUp THEN "" ELSE "Error verifying open connection to Kafka"]

gtgStatusSmartlogicOnly(sl, k, first) ==
    IF sl.ok THEN [code |-> 200, body |-> "OK"] ELSE [code |-> 503, body |-> sl.msg]

\* gtg.FailFastParallelCheck under the good-to-go handler: the checks run in
\* parallel and the status of the failing check that reports first is the
\* answer; 200 OK when none fails
gtgStatus(sl, k, first) ==
    IF sl.ok /\ k.ok THEN [code |-> 200, body |-> "OK"]
    ELSE IF ~sl.ok /\ (k.ok \/ first = "smartlogic") THEN [code |-> 503, body |-> sl.msg]
    ELSE [code |-> 503, body |-> k.msg]

\* a probe of /__gtg (GtgCheck): kafkaUp is the state of the producer's
\* connection, first the check that reports first
GtgCheck(kafkaUp, first) ==
    /\ health.st \in {"built", "started"}
    /\ left.probes > 0
    /\ left' = [left EXCEPT !.probes = @ - 1]
    /\ LET sl == smartlogicConnectivityCheck(health, upstream)
           k  == checkKafkaConnectivity(kafkaUp)
           g  == gtgStatus(sl, k, first)
       IN  /\ health' = sl.health
           /\ probe' = [path |-> "__gtg", code |-> g.code, body |-> g.body,
                        smartlogic |-> sl.ok, kafka |-> kafkaUp, kafkaChecks |-> 1]
    /\ UNCHANGED <<conceptResp, resp, upstream>>
    /\ UNCHANGED <<wh, requestCh, sendq, loopPc, n, loopErr, drained, atTick, calls,
                   cyc, inFlight, force>>
    /\ UNCHANGED clientVars
    /\ UNCHANGED ticker

\* a probe of /__health (HealthcheckHandler): the checks are run and reported
\* in a 200 answer
HealthcheckHandler(kafkaUp) ==
    /\ health.st \in {"built", "started"}
    /\ left.probes > 0
    /\ left' = [left EXCEPT !.probes = @ - 1]
    /\ LET sl == smartlogicConnectivityCheck(health, upstream)
           k  == checkKafkaConnectivity(kafkaUp)
       IN  /\ health' = sl.health
           /\ probe' = [path |-> "__health", code |-> 200,
                        body |-> IF sl.ok /\ k.ok THEN "ok:true" ELSE "ok:false",
                        smartlogic |-> sl.ok, kafka |-> kafkaUp, kafkaChecks |-> 1]
    /\ UNCHANGED <<conceptResp, resp, upstream>>
    /\ UNCHANGED <<wh, requestCh, sendq, loopPc, n, loopErr, drained, atTick, calls,
                   cyc, inFlight, force>>
    /\ UNCHANGED clientVars
    /\ UNCHANGED ticker

\* ---- the coalescer and the service: specifications ----------------------
InitHandlers ==
    /\ wh = <<>>
    /\ requestCh = <<>>
    /\ sendq = <<>>
    /\ loopPc = "tick"
    /\ n = NoRequest
    /\ loopErr = "none"
    /\ drained = {}
    /\ atTick = {}
    /\ calls = 0
    /\ cyc = [o \in Owners |-> IdleCycle]
    /\ inFlight = [notify |-> 0, force |-> 0]
    /\ force = [o \in ForceTasks |-> NoForce]
    /\ resp = NoResp
    /\ upstream = [res |-> "200", body |-> "concept"]
    /\ probe = NoProbe
    /\ conceptResp = NoConceptResp
    /\ ticker = "running"

\* the program once main has built and started the health service
InitCoalescer ==
    /\ InitHandlers
    /\ health = StartedHealth

InitClientIdle ==
    /\ accessFailureCount = 0
    /\ accessToken = "tok0"
    /\ task = [t \in {"notifier", "health"} |->
                  [pc |-> "idle", n401 |-> 0, nHttp |-> 0, nRefresh |-> 0, prev |-> 0,
                   refreshErr |-> "none", result |-> "none"]]
    /\ client = [st |-> "built", tokenCalls |-> 1, err |-> "nil"]
    /\ attempt = [t \in {"notifier", "health"} |-> [entry |-> 0, alone |-> TRUE]]

Init ==
    /\ left = [notify |-> MaxWebhooks, force |-> 0, calls |-> <<>>]
    /\ InitCoalescer
    /\ InitClientIdle

Next ==
    \/ \E q \in Queries, now \in Nows : HandleNotify(q, now)
    \/ \E i \in Slots : Enqueue(i)
    \/ Tick
    \/ CheckLen
    \/ Recv
    \/ Dispatch
    \/ \E out \in ListOutcomes, l \in IdLists : GetChangedConceptListCall(Loop, out, l)
    \/ \E out \in ConceptOutcomes : GetConceptCall(Loop, out)
    \/ \E ok \in BOOLEAN : SendMessageCall(Loop, ok)
    \/ ReturnCall(Loop)

Spec == Init /\ [][Next]_vars

\* the same with the ticker being stopped at any moment
InitStop ==
    /\ left = [notify |-> MaxLiveWebhooks, force |-> 0, calls |-> <<>>]
    /\ InitCoalescer
    /\ InitClientIdle

NextStop ==
    \/ Next
    \/ \E pending \in BOOLEAN : Stop(pending)

StopSpec == InitStop /\ [][NextStop]_vars

\* the same with POST /force-notify requests arriving
InitForce ==
    /\ left = [notify |-> MaxForceWebhooks, force |-> MaxForce, calls |-> <<>>]
    /\ InitCoalescer
    /\ InitClientIdle

NextForce ==
    \/ \E q \in Queries, now \in Nows : HandleNotify(q, now)
    \/ \E i \in Slots : Enqueue(i)
    \/ Tick
    \/ CheckLen
    \/ Recv
    \/ Dispatch
    \/ \E o \in Owners, out \in ListOutcomes, l \in IdLists :
            GetChangedConceptListCall(o, out, l)
    \/ \E o \in Owners, out \in ConceptOutcomes : GetConceptCall(o, out)
    \/ \E o \in Owners, ok \in BOOLEAN : SendMessageCall(o, ok)
    \/ \E o \in Owners : ReturnCall(o)
    \/ \E o \in ForceTasks, pl \in Payloads : HandleForceNotify(o, pl)

ForceSpec == InitForce /\ [][NextForce]_vars

\* the service by itself: a caller invokes Notify and ForceNotify with any
\* arguments, the upstream gives any answer, and GET /concept/{uuid} and the
\* health loop fetch concepts through the same service
InitService ==
    /\ left = [notify |-> 0, force |-> 0, calls |-> <<>>, batches |-> MaxBatches]
    /\ InitCoalescer
    /\ InitClientIdle

NextService ==
    \/ \E since \in CallSinces, tid \in InboundTids : NotifyCall(Direct, since, tid)
    \/ \E ids \in BatchLists, tid \in InboundTids : ForceNotifyCall(Direct, ids, tid)
    \/ /\ cyc[Direct].phase \in {"list1", "list2"}
       /\ \E out \in ListAnswers :
            \E l \in (IF out.err THEN {<<>>} ELSE GetChangedConceptList(out.uris)) :
                GetChangedConceptListCall(Direct, out, l)
    \/ \E out \in ConceptAnswers : GetConceptCall(Direct, out)
    \/ \E ok \in BOOLEAN : SendMessageCall(Direct, ok)
    \/ ReturnCall(Direct)
    \/ \E out \in ConceptAnswers :
            HandleGetConcept(out.res, ServiceGetConcept(GetConcept(out)))
    \/ \E out \in ConceptAnswers : updateSmartlogicSuccessCache(out)

ServiceSpec == InitService /\ [][NextService]_vars

\* the HTTP handlers over any implementation of Servicer: GET /notify (the
\* dispatch loop is not scheduled), GET /concepts and GET /concept/{uuid}
InitApi ==
    /\ left = [notify |-> MaxRequests, force |-> 0, calls |-> <<>>,
               batches |-> MaxRequests]
    /\ InitCoalescer
    /\ InitClientIdle

NextApi ==
    \/ \E q \in Queries, now \in Nows : HandleNotify(q, now)
    \/ \E i \in Slots : Enqueue(i)
    \/ \E lcd \in LastChangeDates, now \in Nows, ans \in ListOutcomes, l \in IdLists :
            HandleGetConcepts(lcd, now, ans, l)
    \/ \E r \in ConceptResults : HandleGetConcept("servicer", r)

ApiSpec == InitApi /\ [][NextApi]_vars

\* the health service: construction from any configuration, the background
\* loop, the upstream changing its answers, and the probes
InitHealth ==
    /\ left = [notify |-> 0, force |-> 0, calls |-> <<>>, batches |-> MaxFetches,
               probes |-> MaxProbes]
    /\ InitHandlers
    /\ InitClientIdle
    /\ health = NoHealth

NextHealth ==
    \/ \E config \in Configs : NewHealthService(config)
    \/ Start
    \/ \E a \in UpstreamStates : UpstreamChanges(a)
    \/ updateSmartlogicSuccessCache(upstream)
    \/ \E kafkaUp \in BOOLEAN, first \in {"smartlogic", "kafka"} : GtgCheck(kafkaUp, first)
    \/ \E kafkaUp \in BOOLEAN : HealthcheckHandler(kafkaUp)

HealthSpec == InitHealth /\ [][NextHealth]_vars

\* ---- the pure functions: URI extraction, the changes list, the envelope --
\* strings a sem:about reference can carry: a prefix followed by a rest
UriPrefixes == {thingURIPrefix, managedLocationURIPrefix,
                "http://www.ft.com/ontology/", "http://www.ft.com/thing",
                "x" \o thingURIPrefix, ""}
SchemeRests == {"ConceptScheme/" \o UuidOf[1], UuidOf[1] \o "/ConceptScheme",
                "ConceptScheme"}
UriRests    == UUIDs \cup SchemeRests

\* one call of getUUIDfromValidURI on the URI prefix \o rest
getUUIDfromValidURICall(prefix, rest) ==
    /\ resp.handler = "none"
    /\ resp' = [handler |-> "getUUIDfromValidURI", prefix |-> prefix, rest |-> rest,
                out |-> getUUIDfromValidURI(prefix \o rest)]
    /\ UNCHANGED <<health, conceptResp, upstream, probe>>
    /\ UNCHANGED coalescerVars
    /\ UNCHANGED clientVars
    /\ UNCHANGED ticker

\* the answers to the changes query as GetChangedConceptList reads them: the
\* request failed, the body is not JSON, or a graph of changesets, each a list
\* of sem:about URIs
Changesets   == UNION {[1..m -> URIs] : m \in 0..MaxUris}
Graphs       == UNION {[1..m -> Changesets] : m \in 0..MaxChangesets}
GraphAnswers == {[err |-> e, graph |-> <<>>] : e \in {"transport", "json"}}
                    \cup {[err |-> "none", graph |-> g] : g \in Graphs}

\* for _, changeset := range graph.Changesets { for _, v := range changeset.Concepts
RECURSIVE Concepts(_)
Concepts(graph) ==
    IF graph = <<>> THEN <<>> ELSE Head(graph) \o Concepts(Tail(graph))

\* one call of GetChangedConceptList answered ans, returning the list l
GetChangedConceptListOnGraph(ans, l) ==
    /\ resp.handler = "none"
    /\ l \in (IF ans.err # "none" THEN {<<>>}
              ELSE GetChangedConceptList(Concepts(ans.graph)))
    /\ resp' = [handler |-> "GetChangedConceptList", graph |-> ans.graph,
                err |-> ans.err, list |-> l]
    /\ UNCHANGED <<health, conceptResp, upstream, probe>>
    /\ UNCHANGED coalescerVars
    /\ UNCHANGED clientVars
    /\ UNCHANGED ticker

\* header maps and bodies a caller can hand to NewFTMessage
HeaderNames   == {"X-Request-Id", "a", "a: b"}
HeaderValues  == {"tid_1", "", "x\ny", "x\n\ny"}
HeaderMaps    == UNION {[S -> HeaderValues] : S \in SUBSET HeaderNames}
MessageBodies == {"", "Test Message", "a: b\n\nc"}

\* the orders in which a range over a map can visit its keys
KeyOrders(S) == {f \in [1..Cardinality(S) -> S] : Range(f) = S}

RECURSIVE headerLines(_, _)
headerLines(headers, order) ==
    IF order = <<>> THEN ""
    ELSE Head(order) \o ": " \o headers[Head(order)] \o "\n"
             \o headerLines(headers, Tail(order))

\* FTMessage.Build: the texts it can return, one per iteration order of the map
Build(headers, value) ==
    {"FTMSG/1.0\n" \o headerLines(headers, order) \o "\n" \o value :
        order \in KeyOrders(DOMAIN headers)}

\* one call of Build on NewFTMessage(headers, value), returning text
BuildCall(headers, value, text) ==
    /\ resp.handler = "none"
    /\ text \in Build(headers, value)
    /\ resp' = [handler |-> "Build", headers |-> headers, value |-> value,
                text |-> text]
    /\ UNCHANGED <<health, conceptResp, upstream, probe>>
    /\ UNCHANGED coalescerVars
    /\ UNCHANGED clientVars
    /\ UNCHANGED ticker

InitPure ==
    /\ left = [notify |-> 0, force |-> 0, calls |-> <<>>, batches |-> 0]
    /\ InitCoalescer
    /\ InitClientIdle

\* each behaviour is one call of one of the three functions
NextPure ==
    \/ \E prefix \in UriPrefixes, rest \in UriRests : getUUIDfromValidURICall(prefix, rest)
    \/ \E ans \in GraphAnswers :
            \E l \in (IF ans.err # "none" THEN {<<>>}
                      ELSE GetChangedConceptList(Concepts(ans.graph))) :
                GetChangedConceptListOnGraph(ans, l)
    \/ \E headers \in HeaderMaps, value \in MessageBodies :
            \E text \in Build(headers, value) : BuildCall(headers, value, text)

PureSpec == InitPure /\ [][NextPure]_vars

\* ---- smartlogic.Client: makeRequest and GenerateToken -------------------
\* the long-running tasks that issue requests through the one client: the
\* dispatch loop (and the HTTP handlers) and the health loop
ClientTasks == {"notifier", "health"}
Statuses    == {200, 401, 500}
HttpOutcomes == {[err |-> TRUE, status |-> 0]}
                    \cup {[err |-> FALSE, status |-> st] : st \in Statuses}
\* answers of the credentials endpoint: no answer, a body that is not JSON,
\* JSON without access_token, JSON with a new access_token
TokenOutcomes == {[err |-> "transport", token |-> ""], [err |-> "json", token |-> ""],
                  [err |-> "none", token |-> ""], [err |-> "none", token |-> "tok1"]}

\* a task's call of makeRequest: position, the 401 answers, upstream requests
\* and token refreshes of the call so far, the counter value the last 401 found,
\* the error of the last refresh, and what the call returned
IdleTask == [pc |-> "idle", n401 |-> 0, nHttp |-> 0, nRefresh |-> 0, prev |-> 0,
             refreshErr |-> "none", result |-> "none"]

Exhausted == accessFailureCount >= maxAccessFailureCount

enterMakeRequestNoCap(t, c, count) == [c EXCEPT !.pc = "http", !.nHttp = @ + 1]

\* entry of makeRequest for task t whose call state is c: fail at once when the
\* counter is at the cap, otherwise issue the request with the bearer token
enterMakeRequest(t, c, count) ==
    IF count >= maxAccessFailureCount
    THEN [c EXCEPT !.pc = "idle", !.refreshErr = "none",
                   !.result = "failed to get a valid access token"]
    ELSE [c EXCEPT !.pc = "http", !.nHttp = @ + 1]

\* task t writes c.accessFailureCount: the calls the other tasks have in
\* progress are no longer alone on the counter
counterWrittenBy(t) ==
    [u \in ClientTasks |->
        IF u # t /\ task[u].pc # "idle" THEN [attempt[u] EXCEPT !.alone = FALSE]
        ELSE attempt[u]]

\* a task calls makeRequest
Call(t) ==
    /\ task[t].pc = "idle"
    /\ client.st = "built"
    /\ left.calls[t] > 0
    /\ left' = [left EXCEPT !.calls[t] = @ - 1]
    /\ task' = [task EXCEPT ![t] = enterMakeRequest(t, IdleTask, accessFailureCount)]
    /\ attempt' = [attempt EXCEPT ![t] = [entry |-> accessFailureCount, alone |-> TRUE]]
    /\ UNCHANGED <<accessFailureCount, accessToken, client>>
    /\ UNCHANGED <<wh, requestCh, sendq, loopPc, n, loopErr, drained, atTick, calls,
                   cyc, inFlight, force>>
    /\ UNCHANGED serviceVars
    /\ UNCHANGED ticker

countAfterDoErrorReset(count) == 0

\* resp, err := c.httpClient.Do(req); if err != nil { return resp, err }
countAfterDoError(count) == count

countAfterNon401Kept(count) == count

\* c.accessFailureCount = 0
countAfterNon401(count) == 0

\* resp, err := c.httpClient.Do(req) returns.  On a 401 the task starts
\* c.accessFailureCount++, which no lock protects: the value it read is prev
Respond(t, out) ==
    /\ task[t].pc = "http"
    /\ IF out.err
       THEN /\ task' = [task EXCEPT ![t].pc = "idle", ![t].refreshErr = "none",
                                    ![t].result = "transport"]
            /\ accessFailureCount' = countAfterDoError(accessFailureCount)
            /\ UNCHANGED <<left, attempt>>
       ELSE IF out.status = 401
       THEN /\ left.unauth > 0
            /\ left' = [left EXCEPT !.unauth = @ - 1]
            /\ task' = [task EXCEPT ![t].pc = "inc", ![t].n401 = @ + 1,
                                    ![t].prev = accessFailureCount]
            /\ UNCHANGED <<accessFailureCount, attempt>>
       ELSE /\ accessFailureCount' = countAfterNon401(accessFailureCount)
            /\ task' = [task EXCEPT ![t].pc = "idle", ![t].refreshErr = "none",
                                    ![t].result = IF out.status = 200 THEN "200"
                                                  ELSE "500"]
            /\ attempt' = counterWrittenBy(t)
            /\ UNCHANGED left
    /\ UNCHANGED <<accessToken, client>>
    /\ UNCHANGED <<wh, requestCh, sendq, loopPc, n, loopErr, drained, atTick, calls,
                   cyc, inFlight, force>>
    /\ UNCHANGED serviceVars
    /\ UNCHANGED ticker

\* the write of c.accessFailureCount++: the value read, plus one
IncrementFailureCount(t) ==
    /\ task[t].pc = "inc"
    /\ accessFailureCount' = task[t].prev + 1
    /\ task' = [task EXCEPT ![t].pc = "refresh"]
    /\ attempt' = counterWrittenBy(t)
    /\ UNCHANGED <<left, accessToken, client>>
    /\ UNCHANGED <<wh, requestCh, sendq, loopPc, n, loopErr, drained, atTick, calls,
                   cyc, inFlight, force>>
    /\ UNCHANGED serviceVars
    /\ UNCHANGED ticker

\* the retry is given up when the refresh fails
afterRefreshStopOnError(t, c, out, count) ==
    IF out.err # "none"
    THEN [c EXCEPT !.pc = "idle", !.refreshErr = "none", !.result = "refresh failed"]
    ELSE enterMakeRequest(t, c, count)

\* err = c.GenerateToken(); if err != nil { log }; return c.makeRequest(method, url)
afterRefresh(t, c, out, count) == enterMakeRequest(t, c, count)

\* GenerateToken: c.accessToken is set to the access_token of the answer, the
\* empty string when the JSON answer has none; on an error it is left alone
tokenAfter(out, token) == IF out.err = "none" THEN out.token ELSE token

\* answers of the credentials endpoint to the call made at construction
ConstructOutcomes == {[err |-> "transport", token |-> ""], [err |-> "json", token |-> ""],
                      [err |-> "none", token |-> ""], [err |-> "none", token |-> "tok0"]}

NoClient    == [st |-> "none", tokenCalls |-> 0, err |-> "nil"]

newClientIgnoreTokenError(urlOk, out) ==
    IF ~urlOk THEN [st |-> "failed", tokenCalls |-> 0, err |-> "parse"]
    ELSE [st |-> "built", tokenCalls |-> 1, err |-> "nil"]

\* what NewSmartlogicClient returns: an error when baseURL does not parse,
\* otherwise the error of its one GenerateToken call, or the client
newClient(urlOk, out) ==
    IF ~urlOk THEN [st |-> "failed", tokenCalls |-> 0, err |-> "parse"]
    ELSE IF out.err # "none" THEN [st |-> "failed", tokenCalls |-> 1, err |-> out.err]
    ELSE [st |-> "built", tokenCalls |-> 1, err |-> "nil"]

\* NewSmartlogicClient: urlOk says whether baseURL parses, out is the answer
\* of the credentials endpoint
NewSmartlogicClient(urlOk, out) ==
    /\ client.st = "none"
    /\ client' = newClient(urlOk, out)
    /\ accessToken' = IF urlOk THEN tokenAfter(out, accessToken) ELSE accessToken
    /\ UNCHANGED <<left, accessFailureCount, task, attempt>>
    /\ UNCHANGED coalescerVars
    /\ UNCHANGED serviceVars
    /\ UNCHANGED ticker

\* c.GenerateToken() after a 401, then the recursive call of makeRequest
GenerateToken(t, out) ==
    /\ task[t].pc = "refresh"
    /\ accessToken' = tokenAfter(out, accessToken)
    /\ task' = [task EXCEPT ![t] =
                   afterRefresh(t, [task[t] EXCEPT !.nRefresh = @ + 1, !.prev = 0,
                                                    !.refreshErr = out.err],
                                out, accessFailureCount)]
    /\ UNCHANGED <<left, accessFailureCount, client, attempt>>
    /\ UNCHANGED <<wh, requestCh, sendq, loopPc, n, loopErr, drained, atTick, calls,
                   cyc, inFlight, force>>
    /\ UNCHANGED serviceVars
    /\ UNCHANGED ticker

InitClient ==
    /\ left = [notify |-> 0, force |-> 0, calls |-> [t \in ClientTasks |-> MaxCalls],
               unauth |-> Max401]
    /\ InitCoalescer
    /\ accessFailureCount = 0
    /\ accessToken = ""
    /\ task = [t \in ClientTasks |-> IdleTask]
    /\ client = NoClient
    /\ attempt = [t \in ClientTasks |-> [entry |-> 0, alone |-> TRUE]]

NextClient ==
    \/ \E urlOk \in BOOLEAN, out \in ConstructOutcomes : NewSmartlogicClient(urlOk, out)
    \/ \E t \in ClientTasks : Call(t)
    \/ \E t \in ClientTasks, out \in HttpOutcomes : Respond(t, out)
    \/ \E t \in ClientTasks : IncrementFailureCount(t)
    \/ \E t \in ClientTasks, out \in TokenOutcomes : GenerateToken(t, out)

ClientSpec == InitClient /\ [][NextClient]_vars

\* the coalescer under fair scheduling: the ticker keeps ticking, the loop
\* and the producer goroutines are scheduled, every call a Notify makes returns
InitLive ==
    /\ left = [notify |-> MaxLiveWebhooks, force |-> 0, calls |-> <<>>]
    /\ InitCoalescer
    /\ InitClientIdle

LiveSpec ==
    /\ InitLive
    /\ [][Next]_vars
    /\ WF_vars(Tick)
    /\ WF_vars(CheckLen)
    /\ WF_vars(Recv)
    /\ WF_vars(Dispatch)
    /\ \A i \in 1..(MaxLiveWebhooks + 1) : WF_vars(Enqueue(i))
    /\ WF_vars(\E out \in ListOutcomes, l \in IdLists :
                   GetChangedConceptListCall(Loop, out, l))
    /\ WF_vars(\E out \in ConceptOutcomes : GetConceptCall(Loop, out))
    /\ WF_vars(\E ok \in BOOLEAN : SendMessageCall(Loop, ok))
    /\ WF_vars(ReturnCall(Loop))

\* ==== properties ============================================================
NotifyErrors == {"listErr", "retryErr", "empty", "batch"}
Sinces(S)    == {wh[i].since : i \in S}
NotifyReturns == InNotify /\ loopPc' # "notify"

\* C1 as stated: the requests handed over before a tick are all drained by the
\* dispatch that follows it, which makes exactly one Notify call and exactly
\* one GetChangedConceptList call, with since = the minimum of their adjusted
\* timestamps.
C1_Original ==
    [][NotifyReturns =>
          /\ atTick \subseteq drained
          /\ calls = 1
          /\ cyc[Loop].since = Min(Sinces(drained))
          /\ cyc[Loop].listCalls = 1]_vars

\* C1 amended: one Notify call per dispatch, with since = the minimum of the
\* adjusted timestamps of the requests drained (all those handed over before
\* the tick among them); that call makes one GetChangedConceptList call, or two
\* when the first one answered an empty list without error.
C1_Coalescing ==
    /\ [](InNotify =>
            /\ atTick # {}
            /\ atTick \subseteq drained
            /\ calls = 1
            /\ inFlight.notify = 1
            /\ cyc[Loop].since = Min(Sinces(drained))
            /\ (drained = atTick => cyc[Loop].since = Min(Sinces(atTick)))
            /\ cyc[Loop].listCalls =
                  CASE cyc[Loop].phase = "list1" -> 0
                    [] cyc[Loop].phase = "list2" -> 1
                    [] OTHER -> IF cyc[Loop].retried THEN 2 ELSE 1)
    /\ [][NotifyReturns =>
            cyc[Loop].listCalls = IF cyc[Loop].retried THEN 2 ELSE 1]_vars

C1_Witness ==
    /\ InNotify
    /\ Cardinality(atTick) >= 2
    /\ drained = atTick
    /\ \E i, j \in atTick : wh[i].since < wh[j].since
    /\ cyc[Loop].phase = "fetch"
    /\ cyc[Loop].listCalls = 2

\* C2: at most one Notify call started by processNotifyRequests is in progress
\* in any state, and it is the one the loop is waiting in.
C2_NoOverlap ==
    /\ inFlight.notify <= 1
    /\ (inFlight.notify = 1) = InNotify

C2_Witness ==
    /\ inFlight.notify = 1
    /\ loopErr # "none"
    /\ Handed # {}

RunningForce == {o \in ForceTasks : force[o].st = "running"}

Accepted(i) == i \in Slots /\ wh[i].st \in {"spawned", "buffered", "blocked"}
Served(i)   == i \in Slots /\ wh[i].st = "done"

\* C4: every accepted request is eventually drained by the loop and the Notify
\* call of the cycle that drained it is made with since <= its adjusted
\* timestamp (and returns).
C4_NoLoss ==
    /\ \A i \in 1..(MaxLiveWebhooks + 1) : [](Accepted(i) => <>Served(i))
    /\ [](\A i \in Slots : wh[i].st = "drained" => i \in drained)
    /\ [](InNotify => \A i \in drained : cyc[Loop].since <= wh[i].since)

C4_Witness ==
    \E j \in Slots :
        /\ wh[j].busy >= 1
        /\ j \in drained
        /\ InNotify
        /\ cyc[Loop].listCalls >= 1
        /\ cyc[Loop].since <= wh[j].since

ValidQuery == [mod |-> TRUE, aff |-> TRUE, lcd |-> [kind |-> "date", ms |-> 1000]]
AcceptValid == HandleNotify(ValidQuery, LastChangeLimit + 990)

\* C5: a valid webhook is answered 200 in any state, also with the buffer full
\* and the loop inside Notify: the handler has no wait; the answer given is
\* never changed by what Notify returns later.
C5_Ack ==
    /\ [](left.notify > 0 => ENABLED AcceptValid)
    /\ [](\A i \in Slots : wh[i].code = IF wh[i].st = "rejected" THEN 400 ELSE 200)
    /\ [][\A i \in Slots : wh'[i].code = wh[i].code]_vars

C5_Witness ==
    \E i \in Slots :
        /\ wh[i].busy = 2
        /\ wh[i].code = 200
        /\ wh[i].st = "done"
        /\ loopErr \in NotifyErrors

\* C6: the buffer of requestCh never holds more than one request; a producer
\* that finds it full waits on the channel.
C6_SingleSlot ==
    /\ Len(requestCh) <= 1
    /\ (sendq # <<>> => Len(requestCh) = 1)
    /\ \A i \in Slots : wh[i].st = "blocked" <=> \E k \in 1..Len(sendq) : sendq[k] = i
    /\ \A i \in Slots : wh[i].st = "buffered" <=> \E k \in 1..Len(requestCh) : requestCh[k] = i

C6_Witness ==
    /\ Len(requestCh) = 1
    /\ Len(sendq) >= 2

\* C7: whatever Notify returns, the loop goes back to waiting for the next
\* tick, in the state it has after a success, and the tick is taken.
C7_LoopContinues ==
    /\ [](loopPc \in {"tick", "len0", "recv", "len1", "notify"})
    /\ [](loopPc = "tick" => ENABLED Tick)
    /\ [][NotifyReturns =>
            /\ loopPc' = "tick"
            /\ n' = NoRequest
            /\ requestCh' = requestCh
            /\ sendq' = sendq]_vars

C7_Witness ==
    /\ loopErr \in NotifyErrors
    /\ InNotify
    /\ cyc[Loop].phase = "publish"

TokenError == "failed to get a valid access token"
Got401(t)      == task[t].pc = "http" /\ task'[t].pc = "inc"
Counted(t)     == task[t].pc = "inc" /\ task'[t].pc = "refresh"
Refreshed(t)   == task[t].pc = "refresh" /\ task'[t].pc # "refresh"
GotNon401(t)   == task[t].pc = "http" /\ task'[t].pc = "idle"
                      /\ task'[t].result \in {"200", "500"}

C10_Reset ==
    /\ [][\A t \in ClientTasks :
            GotNon401(t) =>
               /\ accessFailureCount' = 0
               /\ (task[t].n401 = 1 /\ task'[t].result = "200")
                     => task'[t].nRefresh = 1 /\ task'[t].nHttp = 2]_vars
    /\ [](\A t \in ClientTasks :
            (task[t].pc = "idle" /\ task[t].result = "200" /\ task[t].n401 = 1)
                => task[t].nRefresh = 1)

C10_Witness ==
    \E t \in ClientTasks :
        /\ task[t].pc = "idle"
        /\ task[t].result = "200"
        /\ task[t].n401 = 1
        /\ task[t].nRefresh = 1
        /\ task[t].nHttp = 2
        /\ accessFailureCount = 0

\* C11 as stated: the counter of consecutive 401 answers never exceeds 5, also
\* with several tasks issuing requests through the same client.
C11_Original == accessFailureCount <= maxAccessFailureCount

\* C12 as stated: the tasks' read-modify-write sequences on the token state
\* exclude each other, so that no increment and no reset is lost: two tasks are
\* never inside accessFailureCount++ at the same time, and the write of an
\* increment always finds the counter as its read left it.
C12_Original ==
    [][/\ \A t1, t2 \in ClientTasks :
            (task[t1].pc = "inc" /\ task[t2].pc = "inc") => t1 = t2
       /\ \A t \in ClientTasks :
            Counted(t) => accessFailureCount = task[t].prev]_vars

\* ---- Service.ForceNotify and Service.Notify ---------------------------------
\* owner o is inside the range over the ids / the range is over
InRange(o)   == cyc[o].phase \in {"fetch", "publish"}
RangeOver(o) == cyc[o].phase = "ret" /\ cyc[o].result.kind \in {"ok", "batch"}
Positions(q) == [k \in 1..Len(q) |-> q[k].pos]
UpTo(m)      == [k \in 1..m |-> k]
SentAt(o, p) == \E k \in DOMAIN cyc[o].sent : cyc[o].sent[k].pos = p

\* C13: ForceNotify fetches every id of the list whatever failed before it:
\* when it returns, one fetch has been made for each list position, in list
\* order, and every position whose fetch and publish did not fail has its
\* message sent.
C13_ContinueOnError ==
    \A o \in Owners :
        /\ (cyc[o].phase = "fetch") => Positions(cyc[o].fetched) = UpTo(cyc[o].i - 1)
        /\ (cyc[o].phase = "publish") => Positions(cyc[o].fetched) = UpTo(cyc[o].i)
        /\ RangeOver(o) =>
              /\ Positions(cyc[o].fetched) = UpTo(Len(cyc[o].ids))
              /\ \A p \in 1..Len(cyc[o].ids) : p \notin cyc[o].failed => SentAt(o, p)

C13_Witness ==
    /\ RangeOver(Direct)
    /\ Len(cyc[Direct].ids) = 2
    /\ cyc[Direct].fetched[1].err
    /\ 1 \in cyc[Direct].failed
    /\ SentAt(Direct, 2)

\* C14: ForceNotify returns an error exactly when the fetch or the publish of
\* at least one id failed; the error names the number of ids that failed; with
\* no failure it returns success.
C14_AggregatedError ==
    \A o \in Owners :
        RangeOver(o) =>
            /\ (cyc[o].result.kind = "batch") = (cyc[o].failed # {})
            /\ (cyc[o].result.kind = "ok") = (cyc[o].failed = {})
            /\ cyc[o].result.count =
                  Cardinality({cyc[o].ids[p] : p \in cyc[o].failed})
            /\ \A p \in 1..Len(cyc[o].ids) :
                  p \in cyc[o].failed <=> (cyc[o].fetched[p].err \/ ~SentAt(o, p))

C14_Witness ==
    /\ RangeOver(Direct)
    /\ cyc[Direct].kind = "ForceNotify"
    /\ cyc[Direct].result.kind = "batch"
    /\ cyc[Direct].result.count = 1
    /\ Len(cyc[Direct].sent) = 1
    /\ ~cyc[Direct].fetched[2].err

\* C15: a ForceNotify over N ids without failure publishes N messages; the k-th
\* carries the bytes fetched for the k-th id and an id generated for it by
\* NewTransactionID: different from those of the other messages and never the
\* inbound id.
C15_FreshCorrelationIds ==
    \A o \in Owners :
        /\ \A j, k \in DOMAIN cyc[o].sent :
              /\ cyc[o].sent[k].tid.src = "NewTransactionID"
              /\ cyc[o].sent[k].tid # [src |-> "inbound", serial |-> cyc[o].tid]
              /\ j # k => cyc[o].sent[j].tid # cyc[o].sent[k].tid
        /\ Len(cyc[o].sent) <= cyc[o].minted
        /\ (RangeOver(o) /\ cyc[o].failed = {}) =>
              /\ Len(cyc[o].sent) = Len(cyc[o].ids)
              /\ cyc[o].minted = Len(cyc[o].ids)
              /\ \A k \in DOMAIN cyc[o].sent :
                    /\ cyc[o].sent[k].id = cyc[o].ids[k]
                    /\ cyc[o].sent[k].body = cyc[o].fetched[k].body

C15_Witness ==
    /\ RangeOver(Direct)
    /\ cyc[Direct].kind = "ForceNotify"
    /\ cyc[Direct].failed = {}
    /\ Len(cyc[Direct].sent) = 2
    /\ cyc[Direct].sent[1].body # cyc[Direct].sent[2].body
    /\ cyc[Direct].tid = 1

\* C16: within one ForceNotify the list is processed in order: when the fetch
\* or the publish of a list position is under way, every earlier position has
\* been fetched and, unless it failed, its message sent, and nothing has been
\* fetched or sent for a later position.
C16_ListOrder ==
    \A o \in Owners :
        /\ \A j, k \in DOMAIN cyc[o].sent :
              j < k => cyc[o].sent[j].pos < cyc[o].sent[k].pos
        /\ InRange(o) =>
              /\ \A k \in DOMAIN cyc[o].sent : cyc[o].sent[k].pos < cyc[o].i
              /\ \A k \in DOMAIN cyc[o].fetched : cyc[o].fetched[k].pos <= cyc[o].i
              /\ \A p \in 1..(cyc[o].i - 1) :
                    /\ \E k \in DOMAIN cyc[o].fetched : cyc[o].fetched[k].pos = p
                    /\ p \notin cyc[o].failed => SentAt(o, p)

C16_Witness ==
    /\ cyc[Direct].phase = "fetch"
    /\ cyc[Direct].kind = "ForceNotify"
    /\ cyc[Direct].i = 2
    /\ Len(cyc[Direct].fetched) = 1
    /\ SentAt(Direct, 1)

MessagesFor(o, x) == {k \in DOMAIN cyc[o].sent : cyc[o].sent[k].id = x}
EntriesFor(o, x)  == {p \in DOMAIN cyc[o].ids : cyc[o].ids[p] = x}
NamedFor(o, x)    == {u \in cyc[o].named : getUUIDfromValidURI(u).uuid = x}

\* C17 as stated: a batch without failures publishes exactly one message per
\* concept id, also for a list that holds the same id more than once.
C17_Original ==
    \A o \in Owners :
        (RangeOver(o) /\ cyc[o].failed = {}) =>
            \A x \in Range(cyc[o].ids) : Cardinality(MessagesFor(o, x)) = 1

\* C17 amended: a batch without failures publishes exactly one message per
\* entry of its id list, so an id that occurs k times in the list is published
\* k times.  The list of a Notify has one entry per distinct concept URI of the
\* answer: the same URI named twice gives one entry, the same id under the two
\* URI prefixes gives two.
C17_OnePerEntry ==
    \A o \in Owners :
        /\ (RangeOver(o) /\ cyc[o].failed = {}) =>
              /\ Positions(cyc[o].sent) = UpTo(Len(cyc[o].ids))
              /\ \A x \in UUIDs :
                    Cardinality(MessagesFor(o, x)) = Cardinality(EntriesFor(o, x))
        /\ (cyc[o].kind = "Notify" /\ (InRange(o) \/ RangeOver(o))) =>
              \A x \in UUIDs :
                  Cardinality(EntriesFor(o, x)) = Cardinality(NamedFor(o, x))

C17_Witness ==
    /\ RangeOver(Direct)
    /\ cyc[Direct].failed = {}
    /\ cyc[Direct].kind = "Notify"
    /\ Cardinality(MessagesFor(Direct, UuidOf[1])) = 2

\* C18 as stated: a Notify whose list query answered an empty list fails with
\* the 'no changed concepts' error and makes no fetch and no publish.
C18_Original ==
    \A o \in Owners :
        (cyc[o].kind = "Notify" /\ cyc[o].retried) =>
            /\ cyc[o].fetched = <<>>
            /\ cyc[o].sent = <<>>
            /\ cyc[o].phase = "ret" => cyc[o].result.kind = "empty"

\* C18 amended: Notify fails with the 'no changed concepts' error, which
\* carries since and the correlation id, when the list query answers an empty
\* list at the first call and again at the retry; a failure of the list query,
\* at the first call or at the retry, is returned; in all these cases nothing
\* is fetched and nothing published.
C18_NoChangedConcepts ==
    \A o \in Owners :
        /\ cyc[o].phase \in {"list1", "list2"} =>
              cyc[o].fetched = <<>> /\ cyc[o].sent = <<>> /\ cyc[o].minted = 0
        /\ (cyc[o].phase = "ret" /\ cyc[o].result.kind \in {"empty", "listErr", "retryErr"}) =>
              /\ cyc[o].kind = "Notify"
              /\ cyc[o].fetched = <<>> /\ cyc[o].sent = <<>> /\ cyc[o].minted = 0
              /\ cyc[o].listCalls = IF cyc[o].result.kind = "listErr" THEN 1 ELSE 2
        /\ (cyc[o].phase = "ret" /\ cyc[o].result.kind = "empty") =>
              /\ cyc[o].result.since = cyc[o].since
              /\ cyc[o].result.tid = cyc[o].tid
              /\ cyc[o].retried
        /\ (cyc[o].phase = "ret" /\ cyc[o].kind = "Notify" /\ cyc[o].ids = <<>>
               /\ cyc[o].result.kind \notin {"listErr", "retryErr"}) =>
              cyc[o].result.kind = "empty"

C18_Witness ==
    /\ cyc[Direct].phase = "ret"
    /\ cyc[Direct].result = [kind |-> "empty", count |-> 0, since |-> 1000, tid |-> 1]
    /\ cyc[Direct].listCalls = 2

\* C19 as stated: after an empty first list Notify asks once more with the same
\* since; a non-empty second list is published and Notify returns success; an
\* error of the second call is returned without publishing.
C19_Original ==
    \A o \in Owners :
        (cyc[o].kind = "Notify" /\ cyc[o].retried) =>
            /\ cyc[o].listCalls = 2 => cyc[o].listArgs = <<cyc[o].since, cyc[o].since>>
            /\ (cyc[o].phase = "ret" /\ Len(cyc[o].ids) > 0) =>
                  /\ cyc[o].result.kind = "ok"
                  /\ Len(cyc[o].sent) = Len(cyc[o].ids)
            /\ (cyc[o].phase = "ret" /\ cyc[o].result.kind = "retryErr") =>
                  cyc[o].sent = <<>>

\* C19 amended: after an empty first list Notify makes exactly one more list
\* call, with the same since; a non-empty second list is handed to ForceNotify
\* and Notify returns what ForceNotify returns: success with every concept
\* published when no fetch and no publish fails, the aggregated error
\* otherwise; an error of the second call is returned without publishing.
C19_RetryOnce ==
    \A o \in Owners :
        /\ cyc[o].listCalls <= 2
        /\ cyc[o].listCalls = Len(cyc[o].listArgs)
        /\ \A k \in DOMAIN cyc[o].listArgs : cyc[o].listArgs[k] = cyc[o].since
        /\ cyc[o].retried = (cyc[o].phase = "list2" \/ cyc[o].listCalls = 2)
        /\ cyc[o].phase = "list2" => cyc[o].listCalls = 1
        /\ (cyc[o].kind = "Notify" /\ cyc[o].retried /\ cyc[o].phase = "ret") =>
              /\ cyc[o].listCalls = 2
              /\ Len(cyc[o].ids) > 0 =>
                    /\ cyc[o].result.kind = IF cyc[o].failed = {} THEN "ok" ELSE "batch"
                    /\ cyc[o].failed = {} => Len(cyc[o].sent) = Len(cyc[o].ids)
              /\ cyc[o].result.kind = "retryErr" =>
                    cyc[o].sent = <<>> /\ cyc[o].fetched = <<>>

C19_Witness ==
    /\ cyc[Direct].phase = "ret"
    /\ cyc[Direct].kind = "Notify"
    /\ cyc[Direct].retried
    /\ cyc[Direct].listArgs = <<1000, 1000>>
    /\ cyc[Direct].result.kind = "ok"
    /\ Len(cyc[Direct].sent) = 2

\* C20 as stated: an answer to a concept fetch with a status that is neither
\* 2xx nor 401 is an error: GET /concept/{uuid} answers 500, ForceNotify
\* records the id as failed and publishes nothing for it, the health loop sets
\* its flag to false.
C20_Original ==
    /\ conceptResp.upstream = "500" => conceptResp.code = 500
    /\ health.upstream = "500" => ~health.checkSuccessCache
    /\ \A o \in Owners :
          /\ \A k \in DOMAIN cyc[o].sent : cyc[o].sent[k].status # "500"
          /\ \A k \in DOMAIN cyc[o].fetched :
                cyc[o].fetched[k].res = "500" =>
                    cyc[o].fetched[k].err /\ cyc[o].fetched[k].pos \in cyc[o].failed

\* C21 as stated: when the upstream answers a concept fetch with the "concept
\* does not exist" body, GetConcept returns the NotFound error and not the
\* bytes of the answer: those bytes never reach the handler of
\* GET /concept/{uuid} or ForceNotify as a concept, and are never published.
C21_Original ==
    /\ conceptResp.got # NotExistBody
    /\ \A o \in Owners :
          /\ \A k \in DOMAIN cyc[o].fetched : cyc[o].fetched[k].body # NotExistBody
          /\ \A k \in DOMAIN cyc[o].sent : cyc[o].sent[k].body # NotExistBody

IsNotFound(error) == \E k \in DOMAIN error : error[k] = ErrorConceptDoesNotExist

\* C22: GET /concept/{uuid} answers 200 with the bytes GetConcept returned, as
\* application/ld+json, when GetConcept returned no error; 404 when the error
\* it returned is or wraps ErrorConceptDoesNotExist; 500 for any other error.
C22_ConceptStatus ==
    conceptResp.code # 0 =>
        /\ conceptResp.error = <<>> =>
              /\ conceptResp.code = 200
              /\ conceptResp.body = conceptResp.got
              /\ conceptResp.contentType = "application/ld+json"
        /\ (conceptResp.error # <<>> /\ IsNotFound(conceptResp.error)) =>
              conceptResp.code = 404
        /\ (conceptResp.error # <<>> /\ ~IsNotFound(conceptResp.error)) =>
              conceptResp.code = 500

C22_Witness ==
    /\ conceptResp.code = 404
    /\ conceptResp.error = <<"wrapped", ErrorConceptDoesNotExist>>

\* ---- the health service ---------------------------------------------------
ProbeStep == left'.probes # left.probes

\* C23: a probe of /__gtg or /__health never fetches the health check concept
\* and never changes the cached flag, whatever the flag is: every fetch of the
\* concept is made by the background loop.
C23_CacheIsolation ==
    [][/\ health'.fetchedBy \in {"none", "loop"}
       /\ ProbeStep => health' = health]_vars

C23_Witness ==
    /\ probe.path = "__gtg"
    /\ probe.code = 200
    /\ health.checkSuccessCache
    /\ health.fetchedBy = "loop"
    /\ upstream.res = "transport"

\* C24: once the loop has completed a fetch, the cached flag says whether
\* the most recent one returned no error: false after a failed iteration,
\* true after a successful one.  A change of what the upstream answers
\* changes nothing in the health service, and a probe reports the cached
\* flag as it is.
C24_CacheTracksLoop ==
    [][/\ health'.fetchedBy = "loop" => (health'.checkSuccessCache <=> ~health'.lastErr)
       /\ upstream' # upstream => health' = health
       /\ ProbeStep => (probe'.smartlogic <=> health.checkSuccessCache)]_vars

C24_Witness ==
    /\ ~health.checkSuccessCache
    /\ health.fetchedBy = "loop"
    /\ health.lastErr
    /\ left.batches = MaxFetches - 2
    /\ upstream.res = "200"
    /\ probe.path = "__gtg"
    /\ probe.code = 503

\* C25: a probe of /__gtg answers 200 exactly when the cached flag is true and
\* the check of the producer's connection, made at that probe, succeeds;
\* otherwise it answers 503 with the message of a check that fails.  A probe
\* of /__health answers 200 in every state.
C25_Readiness ==
    [][ProbeStep =>
          /\ probe'.kafkaChecks = 1
          /\ probe'.path = "__gtg" =>
                /\ probe'.code = 200 <=> (health.checkSuccessCache /\ probe'.kafka)
                /\ probe'.code # 200 =>
                      /\ probe'.code = 503
                      /\ \/ /\ ~health.checkSuccessCache
                            /\ probe'.body =
                                 "latest Smartlogic connectivity check is unsuccessful"
                         \/ /\ ~probe'.kafka
                            /\ probe'.body = "Error verifying open connection to Kafka"
          /\ probe'.path = "__health" => probe'.code = 200]_vars

C25_Witness ==
    /\ probe.path = "__gtg"
    /\ probe.code = 503
    /\ probe.body = "Error verifying open connection to Kafka"
    /\ health.checkSuccessCache
    /\ ~probe.kafka

\* C26: NewHealthService returns an error and no service exactly when one of
\* AppSystemCode, AppName, Description, SmartlogicModel, SmartlogicModelConcept
\* is empty or SuccessCacheTime is not positive; otherwise a service and no
\* error.
C26_Validation ==
    health.st # "none" =>
        LET c == health.config
            bad == \/ c.AppSystemCode = ""
                   \/ c.AppName = ""
                   \/ c.Description = ""
                   \/ c.SmartlogicModel = ""
                   \/ c.SmartlogicModelConcept = ""
                   \/ c.SuccessCacheTime <= 0
        IN  /\ (health.st = "invalid") <=> bad
            /\ (health.st = "invalid") <=> (health.err # "nil")
            /\ (health.st \in {"built", "started"}) <=> ~bad

C26_Witness ==
    /\ health.st = "invalid"
    /\ health.config = [ValidConfig EXCEPT !.SuccessCacheTime = 0]

\* ---- the HTTP handlers ------------------------------------------------------
MissingNames(q) ==
    IF ~q.mod /\ ~q.aff /\ q.lcd.kind = "absent"
    THEN "modifiedGraphId, affectedGraphId, lastChangeDate"
    ELSE IF ~q.mod /\ ~q.aff THEN "modifiedGraphId, affectedGraphId"
    ELSE IF ~q.mod /\ q.lcd.kind = "absent" THEN "modifiedGraphId, lastChangeDate"
    ELSE IF ~q.aff /\ q.lcd.kind = "absent" THEN "affectedGraphId, lastChangeDate"
    ELSE IF ~q.mod THEN "modifiedGraphId"
    ELSE IF ~q.aff THEN "affectedGraphId"
    ELSE "lastChangeDate"

\* C27: GET /notify with modifiedGraphId, affectedGraphId or lastChangeDate
\* missing or empty answers 400, and the message lists exactly the missing
\* names, separated by ", ", in the order modifiedGraphId, affectedGraphId,
\* lastChangeDate.
C27_MissingParameters ==
    resp.handler = "notify" =>
        LET q == resp.query
        IN  (~q.mod \/ ~q.aff \/ q.lcd.kind = "absent") <=>
                /\ resp.code = 400
                /\ resp.msg = "Query parameters were not set: " \o MissingNames(q)

C27_Witness ==
    /\ resp.handler = "notify"
    /\ resp.code = 400
    /\ resp.msg = "Query parameters were not set: modifiedGraphId, lastChangeDate"

HorizonMsg == "Last change date should be time point in the last 168 hours"
Validated(r) ==
    /\ r.query.lcd.kind = "date"
    /\ r.handler = "concepts" \/ (r.handler = "notify" /\ r.query.mod /\ r.query.aff)

\* C28: for GET /notify and GET /concepts, a well-formed lastChangeDate t is
\* accepted exactly when now - (t - 10ms) <= 168h, and rejected with 400 and
\* the horizon message when now - (t - 10ms) > 168h; the time handed to the
\* coalescer, or to the changes query, is t - 10ms.
C28_Horizon ==
    [][/\ Validated(resp') =>
             LET t == resp'.query.lcd.ms
             IN  IF resp'.now - (t - 10) > 604800000
                 THEN resp'.code = 400 /\ resp'.msg = HorizonMsg
                 ELSE /\ resp'.code # 400
                      /\ resp'.since = t - 10
                      /\ resp'.handler = "notify" => resp'.code = 200
       /\ Len(wh') > Len(wh) =>
             /\ resp'.handler = "notify"
             /\ (wh'[Len(wh')].st # "rejected") <=> (resp'.code = 200)
             /\ resp'.code = 200 => wh'[Len(wh')].since = resp'.query.lcd.ms - 10]_vars

\* a date exactly 168h old after the adjustment is accepted, by both handlers
C28_Witness ==
    /\ resp.handler = "concepts"
    /\ resp.query.lcd = [kind |-> "date", ms |-> 1000]
    /\ resp.now - 990 = 604800000
    /\ resp.code = 200
    /\ resp.since = 990
    /\ \E i \in Slots : wh[i].st = "buffered" /\ wh[i].since = 990

Rejected(w, i) == w[i].st = "rejected"

\* C29: a webhook answered 400 is never put in the coalescer buffer and
\* never causes a Notify call: the step that rejects it changes neither the
\* buffer nor any invocation of the service, it stays rejected, and the
\* requests the loop receives are never rejected ones; a tick that finds the
\* buffer empty goes back to waiting with no Notify call made.
C29_NoWorkForRejected ==
    [][/\ Len(wh') > Len(wh) =>
             /\ Rejected(wh', Len(wh')) <=> (resp'.code = 400)
             /\ Rejected(wh', Len(wh')) =>
                   /\ requestCh' = requestCh
                   /\ sendq' = sendq
                   /\ cyc' = cyc
                   /\ inFlight' = inFlight
       /\ \A i \in Slots : Rejected(wh, i) => wh'[i] = wh[i]
       /\ \A i \in Range(requestCh') \cup Range(sendq') \cup drained' : ~Rejected(wh', i)
       /\ (\A i \in DOMAIN wh' : Rejected(wh', i)) =>
             /\ cyc'[Loop].phase = "idle"
             /\ inFlight'.notify = 0
       /\ (loopPc = "len0" /\ Len(requestCh) = 0 /\ loopPc' # loopPc) =>
             /\ loopPc' = "tick"
             /\ cyc' = cyc
             /\ inFlight' = inFlight
             /\ calls' = calls]_vars

C29_Witness ==
    /\ loopPc = "len0"
    /\ requestCh = <<>>
    /\ Len(wh) = 2
    /\ \A i \in Slots : Rejected(wh, i)
    /\ resp.code = 400

\* C30: POST /force-notify with a body without "uuids", or with "uuids": null,
\* answers 400 and ForceNotify is not called; with a list, the empty one
\* included, the handler calls ForceNotify once, with that list, and answers
\* 200 "Concept notification completed" when ForceNotify returns no error and
\* 500 when it returns its error.
C30_ForceNotifyStatus ==
    [][\A o \in ForceTasks :
          LET f == force'[o]
          IN  /\ f.payload \in {"nouuids", "nulluuids", "badjson"} =>
                    /\ f.st = "done"
                    /\ f.code = 400
                    /\ f.calls = 0
                    /\ cyc'[o] = IdleCycle
              /\ f.payload = "list" =>
                    /\ f.calls = 1
                    /\ f.st = "running" =>
                          /\ cyc'[o].kind = "ForceNotify"
                          /\ cyc'[o].ids = f.uuids
                    /\ (force[o].st = "running" /\ f.st = "done") =>
                          /\ cyc[o].phase = "ret"
                          /\ cyc[o].result.kind = "ok" =>
                                /\ f.code = 200
                                /\ f.msg = "Concept notification completed"
                          /\ cyc[o].result.kind = "batch" => f.code = 500
                          /\ cyc[o].result.kind \in {"ok", "batch"}
                    /\ f.st = "done" => f.code \in {200, 500}]_vars

C30_Witness ==
    \E o \in ForceTasks :
        /\ force[o].st = "done"
        /\ force[o].payload = "list"
        /\ force[o].uuids = <<>>
        /\ force[o].calls = 1
        /\ force[o].code = 200

\* ---------------------------------------------------------------------
\* C31 as stated: every construction performs one token acquisition, fails
\* exactly when the credentials call gives a transport error or a body
\* that is not JSON, and on success the bearer token is the access_token
\* of the answer (empty when the answer has none).
C31_Original ==
    [][\A urlOk \in BOOLEAN, out \in ConstructOutcomes :
          NewSmartlogicClient(urlOk, out) =>
              /\ client'.tokenCalls = 1
              /\ (client'.st = "failed") = (out.err \in {"transport", "json"})
              /\ (client'.st = "built" => accessToken' = out.token)]_vars

\* C31 (amended): a construction whose base URL parses performs one token
\* acquisition, fails exactly when the credentials call gives a transport
\* error or a body that is not JSON, and on success the bearer token is the
\* access_token of the answer, empty when the answer has none; a construction
\* whose base URL does not parse fails without any token acquisition.
C31_Construction ==
    [][\A urlOk \in BOOLEAN, out \in ConstructOutcomes :
          NewSmartlogicClient(urlOk, out) =>
              IF urlOk
              THEN /\ client'.tokenCalls = 1
                   /\ (client'.st = "failed") = (out.err \in {"transport", "json"})
                   /\ (client'.st = "failed" => client'.err = out.err)
                   /\ (client'.st = "built" => accessToken' = out.token)
              ELSE /\ client'.st = "failed"
                   /\ client'.tokenCalls = 0
                   /\ accessToken' = accessToken]_vars

\* a client built from an answer without access_token, used by a request
C31_Witness ==
    /\ client.st = "built"
    /\ client.tokenCalls = 1
    /\ accessToken = ""
    /\ \E t \in ClientTasks : task[t].pc = "http" /\ task[t].nRefresh = 0

\* ---------------------------------------------------------------------
\* the step of task t in which its HTTP call fails with a transport error
TransportErrorStep(t) ==
    /\ task[t].pc = "http"
    /\ task'[t].pc = "idle"
    /\ task'[t].result = "transport"

\* C39: a transport error on an upstream request leaves the token state as
\* it was: the failure counter is neither incremented nor reset and the
\* bearer token is kept.
C39_TransportErrorKeepsTokenState ==
    [][\A t \in ClientTasks :
          TransportErrorStep(t) =>
              /\ accessFailureCount' = accessFailureCount
              /\ accessToken' = accessToken]_vars

\* a request that was answered 401, refreshed the token and then failed with
\* a transport error, the counter still holding the 401s counted before
C39_Witness ==
    \E t \in ClientTasks :
        /\ task[t].pc = "idle"
        /\ task[t].result = "transport"
        /\ task[t].n401 > 0
        /\ accessFailureCount >= task[t].n401

C32_UuidRoundTrip ==
    resp.handler = "getUUIDfromValidURI" =>
        /\ (resp.prefix \in {thingURIPrefix, managedLocationURIPrefix}
                /\ resp.rest \in UUIDs)
              => resp.out = [ok |-> TRUE, uuid |-> resp.rest]
        /\ resp.rest \in SchemeRests => ~resp.out.ok
        /\ resp.prefix \notin {thingURIPrefix, managedLocationURIPrefix}
              => ~resp.out.ok

\* extraction from a managed location URI gave back the uuid, and a concept
\* scheme under the thing prefix was refused
C32_Witness ==
    /\ resp.handler = "getUUIDfromValidURI"
    /\ resp.prefix = managedLocationURIPrefix
    /\ resp.rest = UuidOf[2]
    /\ resp.out.ok
    /\ resp.out.uuid = UuidOf[2]
    /\ ~getUUIDfromValidURI(SchemeURI).ok

\* ---------------------------------------------------------------------
\* the recognized, non-ConceptScheme URIs of a graph, and the uuid each names
TakenURIs(graph) ==
    {uri \in Range(Concepts(graph)) :
        \E p \in {thingURIPrefix, managedLocationURIPrefix}, u \in UUIDs : uri = p \o u}
UuidNamed(uri) ==
    CHOOSE u \in UUIDs :
        \E p \in {thingURIPrefix, managedLocationURIPrefix} : uri = p \o u

\* C33: GetChangedConceptList returns exactly one uuid for each distinct
\* recognized, non-ConceptScheme URI of the answer's changesets: a URI
\* repeated within or across changesets counts once, other URIs count for
\* nothing, and an answer without changesets gives an empty list, no error.
C33_OnePerDistinctURI ==
    (resp.handler = "GetChangedConceptList" /\ resp.err = "none") =>
        /\ Len(resp.list) = Cardinality(TakenURIs(resp.graph))
        /\ \A u \in UUIDs :
              Cardinality({k \in DOMAIN resp.list : resp.list[k] = u})
                  = Cardinality({uri \in TakenURIs(resp.graph) : UuidNamed(uri) = u})
        /\ Range(resp.list) \subseteq UUIDs
        /\ resp.graph = <<>> => resp.list = <<>>

\* a URI named in two changesets and twice in one of them, next to a concept
\* scheme: one uuid is returned
C33_Witness ==
    /\ resp.handler = "GetChangedConceptList"
    /\ resp.err = "none"
    /\ Len(resp.graph) = 2
    /\ resp.graph[1] = <<thingURIPrefix \o UuidOf[1], thingURIPrefix \o UuidOf[1]>>
    /\ resp.graph[2] = <<SchemeURI, thingURIPrefix \o UuidOf[1]>>
    /\ resp.list = <<UuidOf[1]>>

\* ---------------------------------------------------------------------
\* reading an envelope back: the position of the first occurrence of substr in
\* str, 0 when there is none
IndexOf(str, substr) ==
    LET at == {i \in 1..(Len(str) - Len(substr) + 1) :
                  SubSeq(str, i, i + Len(substr) - 1) = substr}
    IN  IF at = {} THEN 0 ELSE CHOOSE i \in at : \A j \in at : i <= j

NotAnEnvelope == [ok |-> FALSE, headers |-> {}, body |-> ""]

\* header lines 'name: value' up to the first empty line, the rest is the body
RECURSIVE ParseHeaders(_, _)
ParseHeaders(text, headers) ==
    IF HasPrefix(text, "\n")
    THEN [ok |-> TRUE, headers |-> headers, body |-> SubSeq(text, 2, Len(text))]
    ELSE LET nl   == IndexOf(text, "\n")
             line == SubSeq(text, 1, nl - 1)
             sep  == IndexOf(line, ": ")
         IN  IF nl = 0 \/ sep = 0 THEN NotAnEnvelope
             ELSE ParseHeaders(SubSeq(text, nl + 1, Len(text)),
                               headers \cup {<<SubSeq(line, 1, sep - 1),
                                               SubSeq(line, sep + 2, Len(line))>>})

Parse(text) ==
    IF HasPrefix(text, "FTMSG/1.0\n")
    THEN ParseHeaders(TrimPrefix(text, "FTMSG/1.0\n"), {})
    ELSE NotAnEnvelope

HeaderSet(headers) == {<<k, headers[k]>> : k \in DOMAIN headers}

DrainedRequests == {[notifySince |-> wh[i].since, transactionID |-> i] : i \in drained}

\* the loop receives a request in this step
RecvStep == loopPc = "recv" /\ loopPc' = "len1"

\* the loop leaves the drain and calls Notify in this step
NotifyStep == loopPc = "len1" /\ loopPc' = afterDispatch

\* C35: of the requests drained in one cycle the reduction keeps the one with
\* the earliest sinceTimestamp, and of several with that timestamp the first
\* one drained; Notify gets the timestamp and the correlation id of that
\* request, never the id of another drained request.
C35_DrainReduction ==
    /\ [](loopPc = "len1" =>
            /\ n \in DrainedRequests
            /\ \A r \in DrainedRequests : n.notifySince <= r.notifySince)
    /\ [][/\ RecvStep =>
                LET req == [notifySince |-> wh[Head(requestCh)].since,
                            transactionID |-> Head(requestCh)]
                IN  /\ req.notifySince < n.notifySince => n' = req
                    /\ (drained # {} /\ req.notifySince >= n.notifySince) => n' = n
          /\ NotifyStep =>
                /\ cyc'[Loop].since = n.notifySince
                /\ cyc'[Loop].tid = n.transactionID
                /\ n.transactionID \in drained
                /\ wh[n.transactionID].since = n.notifySince]_vars

\* a cycle that drained two requests with the same timestamp and called
\* Notify with the correlation id of one of them
C35_Witness ==
    /\ loopPc = afterDispatch
    /\ \E i, j \in drained :
          /\ i # j
          /\ wh[i].since = wh[j].since
          /\ cyc[Loop].tid = i
          /\ cyc[Loop].since = wh[i].since
          /\ \A k \in drained : wh[k].since >= wh[i].since

\* ---------------------------------------------------------------------
\* the loop is inside Tick() on a stopped ticker whose channel is empty: no
\* tick will arrive, and the task has not exited
LoopWaitsOnStoppedTicker == ticker = "stopped" /\ loopPc = "tick"

\* C36 as stated: once the ticker is stopped the dispatch loop terminates,
\* so it is never left waiting on the stopped ticker, and a request in the
\* buffer at that point is discarded: a loop that was waiting for a tick when
\* the ticker was stopped starts no further cycle.
C36_Original ==
    /\ [](~LoopWaitsOnStoppedTicker)
    /\ [][(ticker # "running" /\ loopPc = "tick") => loopPc' = "tick"]_vars

\* ---------------------------------------------------------------------
\* C37: the dispatch loop never blocks on the buffer: whenever it is at the
\* receive it has just observed the buffer non-empty and, being the only
\* consumer, finds a request there, whatever the producers do meanwhile; and
\* on observing the buffer empty after a receive it leaves the drain for
\* Notify.
C37_NeverBlocksOnBuffer ==
    /\ [](loopPc = "recv" => (Len(requestCh) > 0 /\ ENABLED Recv))
    /\ [][(loopPc = "len1" /\ Len(requestCh) = 0) => loopPc' \in {"len1", afterDispatch}]_vars
    /\ [][(loopPc = "len0" /\ Len(requestCh) = 0) => loopPc' \in {"len0", "tick"}]_vars

\* the loop back at the receive within one drain, a second request having
\* taken the place of the first in the buffer while a producer still waits
C37_Witness ==
    /\ loopPc = "recv"
    /\ drained # {}
    /\ Len(requestCh) > 0
    /\ \E i \in Slots : wh[i].st = "blocked"

\* ---------------------------------------------------------------------
\* C38: the cached flag is false from the construction of the health service
\* until a fetch of the health check concept by the background loop returns
\* without error, also while Start has not been called, and every probe of
\* /__gtg made while it is false answers 503.
C38_FalseUntilFirstSuccess ==
    /\ [](health.fetchedBy = "none" => ~health.checkSuccessCache)
    /\ [][/\ (health.st = "none" /\ health'.st = "built") => ~health'.checkSuccessCache
          /\ (~health.checkSuccessCache /\ health'.checkSuccessCache) =>
                /\ health.st = "started"
                /\ left'.batches # left.batches
                /\ health'.fetchedBy = "loop"
                /\ ~health'.lastErr
          /\ (ProbeStep /\ probe'.path = "__gtg" /\ ~health.checkSuccessCache) =>
                probe'.code = 503]_vars

\* a probe of /__gtg answered 503 on a service that was built and not started,
\* the producer's connection being up
C38_Witness ==
    /\ health.st = "built"
    /\ health.fetchedBy = "none"
    /\ ~health.checkSuccessCache
    /\ probe.path = "__gtg"
    /\ probe.kafka
    /\ probe.code = 503
    /\ probe.body = "latest Smartlogic connectivity check is unsuccessful"

====
